---- MODULE Spec2Model ----
(***************************************************************************)
(* Model of src/tools/factory.py: the pre-dispatch wait, the worker pool   *)
(* of Factory.execute_recipes_parallel, the batch scheduler of             *)
(* Factory._execute_command (sequential and FORCE_MAXPERFORMANCE modes,    *)
(* with the halving retry), the output parser Factory._process_results,    *)
(* the flattening of the per-command results, and Factory.export_results:  *)
(* the resolution of the export separation, the fold into the result       *)
(* table, and the grouping and the files of ResultsExporter.               *)
(***************************************************************************)
EXTENDS Integers, Sequences, FiniteSets, TLC

\* ------------------------------------------------------------------ bounds
MaxImages == 6      \* largest number of images in the upload folder
MaxBatch == 5       \* largest value of Factory.batch_size explored
MaxFailures == 2    \* largest number of failing calls (process, config, chdir, parse) in a run
MaxSleeps == 6      \* the count of sleeps saturates here
MaxCpu == 2         \* largest value returned by cpu_count()
MaxSmallImages == 3 \* largest image count in the runs with several commands or a wait
MaxSmallBatch == 2  \* largest batch size in those runs
MaxLineLen == 4     \* longest output line of the parser's evaluation, in pieces
MaxRecords == 3     \* longest record list of the fold's evaluation
MaxPosition == 2    \* largest position of the grouping's evaluation
MaxExports == 2     \* longest sequence of exports to the database evaluated
MaxThreadBatches == 3 \* batches of a FORCE_MAXPERFORMANCE run in InitPlain
MaxPoolImages == 2    \* largest ImageSet of the runs with several commands
MaxValues == 2        \* longest list of values of the preloading
MaxReady == 1       \* largest number of completed futures waiting to be collected

\* ------------------------------------------------------- program constants
InitialWait == 1    \* wait_time = 1
BackoffCap == 16    \* min(wait_time * 2, 16)

\* keys of self.commands, in recipe order
CommandOrder == <<"m1", "m2">>
Commands == {CommandOrder[k] : k \in 1..Len(CommandOrder)}

\* directory entries of the upload folder that are not images
OtherEntries == {101}

\* first characters of image filenames; image n starts with n % 2
PrefixValues == {0, 1}

VARIABLES
    images,             \* list(self.images.values()): the image paths, in dict order
    files,              \* os.listdir(self.upload_folder), as a set
    pending,            \* entries an outside producer has still to copy into the folder
    commands,           \* self.commands: command -> enabled
    batch_size,         \* self.batch_size
    force_max,          \* config['FORCE_MAXPERFORMANCE']
    cpu,                \* cpu_count()
    pc,                 \* position of execute_recipes_parallel
    copied,             \* copied_images
    wait_time,          \* wait_time
    sleeps,             \* number of time.sleep calls made (saturating)
    last_sleep,         \* argument of the latest time.sleep call
    sleep_parity,       \* parity of the number of time.sleep calls made
    num_processes,      \* num_processes
    cmd,                \* per command: the state of its _execute_command call
    failures,           \* number of failing calls so far
    sequential_results, \* sequential_results
    results_dict,       \* results_dict built by export_results
    export_separation,  \* custom['exportSeparation'], as pieces of text
    naming_convention,  \* config['NAMING_CONVENTION'], as pieces of text
    exportation_formats,\* the formats enabled in self.exportation_formats
    tables,             \* the tables _export_to_formats has built
    written,            \* the files in the output folder
    db_config,          \* what the configuration says about the database
    db_columns,         \* the columns of the connected database table
    db_rows,            \* the rows of the connected database table
    db_outcome,         \* how the latest export to the database ended
    attempted,          \* the files whose writer was called
    export_calls,       \* number of calls of Factory.export_results
    hanging,            \* the commands whose binary never exits
    recipe_calls,       \* the calls of check_output made by execute_recipe
    fallback,           \* how far the caller's sequential fallback has come
    pure                \* the pure function under evaluation, its input and output

vars == <<images, files, pending, commands, batch_size, force_max, cpu, pc,
          copied, wait_time, sleeps, last_sleep, sleep_parity, num_processes, cmd,
          failures, sequential_results, results_dict, export_separation,
          naming_convention, exportation_formats, tables, written, db_config,
          db_columns, db_rows, db_outcome, attempted, export_calls, hanging,
          recipe_calls, fallback, pure>>

\* what the recipe and the configuration say about the export
export_config == <<export_separation, naming_convention, exportation_formats,
                   db_config>>

\* what an export leaves behind
exported == <<tables, written, attempted, db_columns, db_rows, db_outcome,
              export_calls>>

\* the binaries that never exit, and the calls execute_recipe made
binaries == <<hanging, recipe_calls>>

\* ----------------------------------------------------------------- helpers
Min(a, b) == IF a < b THEN a ELSE b

CeilDiv(a, b) == (a + b - 1) \div b

\* Python slice s[a:b] for 0 <= a, 0 <= b
Slice(s, a, b) ==
    IF a >= Min(b, Len(s)) THEN << >> ELSE SubSeq(s, a + 1, Min(b, Len(s)))

SeqRange(s) == {s[k] : k \in 1..Len(s)}

\* the ImageSet built by load_images over a folder holding images 1..n
ImagePaths(n) == [k \in 1..n |-> k]

\* select_only: the images kept on disk are those starting with a given value;
\* the others are removed from the folder but stay in self.images
AllowedImages(n, values) == {i \in 1..n : (i % 2) \in values}

\* ------------------------------------------------------- pure parts of code
\* the doubling without its cap
BackoffNoCap(w) == w * 2

\* wait_time = min(wait_time * 2, 16)
Backoff(w) == Min(w * 2, BackoffCap)

\* self.true_commands: the enabled commands, in recipe order
TrueCommands == SelectSeq(CommandOrder, LAMBDA c : commands[c])

\* range(0, len(image_paths), self.batch_size)
BatchStarts(n, b) == {i \in 0..(n - 1) : i % b = 0}

\* the slice one element short
BatchShort(paths, i, b) == Slice(paths, i, i + b - 1)

\* image_paths[i:i + self.batch_size]
Batch(paths, i, b) == Slice(paths, i, i + b)

\* self.batch_size // 2, the step and the width of the retry slices
Half(b) == b \div 2

\* image_paths[j:j + self.batch_size // 2]
RetryBatch(paths, j, b) == Slice(paths, j, j + Half(b))

\* _get_binary_path: os.path.join(models_path, command + ".exe") + suffix;
\* never empty, so the FBIN3_P branch of _execute_command is not taken
BinaryPath(c) == <<"models", c, ".exe">>

\* the truth value Python gives a string in a condition
Truthy(str) == str # ""

\* _get_binary_path(command) with commands_spec['white_background'] given:
\* the condition is `command == 'root_color' or 'root_advanced_color'`, the
\* additional parameter is concatenated to the path string
GetBinaryPath(command, white_background) ==
    LET named == (command = "root_color") \/ Truthy("root_advanced_color")
        additional_parameter ==
            IF named /\ white_background THEN <<" --whitebg ">> ELSE << >>
    IN  <<"models", command, ".exe">> \o additional_parameter

\* _run_subprocess: the argument vector of check_output([binary_path] + batch)
FullCommand(binary_path, batch) == <<binary_path>> \o batch

\* ----------------------------------------------- file names and text lines
\* A text is the sequence of its pieces: the separators that the code looks
\* for (".", "_", "-", "/", " ", ": ", " Result: ", "*") and the runs of other
\* characters between them.

Last(s) == s[Len(s)]

RECURSIVE SplitOn(_, _)
\* str.split(sep) and re.split('[...]', s): the parts of s between the
\* occurrences of a separator of seps, from left to right
SplitOn(s, seps) ==
    IF \A k \in 1..Len(s) : s[k] \notin seps THEN <<s>>
    ELSE LET k == CHOOSE n \in 1..Len(s) :
                      s[n] \in seps /\ \A m \in 1..(n - 1) : s[m] \notin seps
         IN <<SubSeq(s, 1, k - 1)>> \o SplitOn(SubSeq(s, k + 1, Len(s)), seps)

\* str.strip(chars)
RECURSIVE StripChars(_, _)
StripChars(s, chars) ==
    IF s = << >> THEN s
    ELSE IF s[1] \in chars THEN StripChars(Tail(s), chars)
    ELSE IF Last(s) \in chars THEN StripChars(SubSeq(s, 1, Len(s) - 1), chars)
    ELSE s

\* os.path.basename
Basename(path) == Last(SplitOn(path, {"/"}))

\* os.path.splitext(name)[0]: the name up to its last dot, unless only dots
\* come before that dot
SplitExt(name) ==
    LET dots == {k \in 1..Len(name) : name[k] = "."} IN
    IF dots = {} THEN name
    ELSE LET k == CHOOSE n \in dots : \A m \in dots : m <= n IN
         IF \A m \in 1..(k - 1) : name[m] = "." THEN name
         ELSE SubSeq(name, 1, k - 1)

\* ALLOWED_EXTENSIONS
AllowedExtensions == {<<"png">>, <<"jpg">>, <<"jpeg">>, <<"gif">>}

\* load_images: filename.split('.')[-1].lower() in ALLOWED_EXTENSIONS (the
\* names of the model are in lower case)
IsImageName(name) == Last(SplitOn(name, {"."})) \in AllowedExtensions

\* the name, without extension, of the image with path n: four stems in
\* turn, so that images n and n + 4 differ in the extension only
StemOf(n) ==
    CASE n % 4 = 1 -> <<"A", "_", "G7", "_", "1">>
      [] n % 4 = 2 -> <<"B", "_", "G7">>
      [] n % 4 = 3 -> <<"A", "-", "G8", "_", "1">>
      [] OTHER -> <<"B">>

ExtensionOf(n) ==
    IF n <= 4 THEN "png" ELSE IF n <= 8 THEN "jpg" ELSE "gif"

\* the directory entry n of the upload folder
FileName(n) ==
    IF n \in OtherEntries THEN <<"notes", ".", "txt">>
    ELSE StemOf(n) \o <<".", ExtensionOf(n)>>

\* os.path.join(self.upload_folder, filename)
PathOf(n) == <<"uploads", "/">> \o FileName(n)

\* ------------------------------------------------------------ the preloading
\* the directory entries of a folder that load_images takes for images
ImagesIn(folder) == {e \in folder : IsImageName(FileName(e))}

\* load_images: the entries found are added to self.images, which is never
\* cleared; FLI3 is raised when self.images is still empty
LoadImages(held, folder) ==
    [raised |-> held \cup ImagesIn(folder) = {},
     images |-> held \cup ImagesIn(folder)]

\* image.startswith(value)
StartsWith(name, value) ==
    /\ Len(value) <= Len(name)
    /\ SubSeq(name, 1, Len(value)) = value

\* verify_preprocessed_images: FVPI1 when self.images is empty
VerifyPreprocessedImages(held) == [raised |-> held = {}]

\* select_only(values): load_images, then every loaded image that starts with
\* none of the values is removed from the folder, then
\* verify_preprocessed_images looks at self.images
SelectOnly(held, folder, values) ==
    LET loaded == LoadImages(held, folder)
        allowed_images ==
            {i \in loaded.images :
                \E k \in 1..Len(values) : StartsWith(FileName(i), values[k])} IN
    IF loaded.raised
    THEN [raised |-> TRUE, images |-> loaded.images, files |-> folder]
    ELSE [raised |-> VerifyPreprocessedImages(loaded.images).raised,
          images |-> loaded.images,
          files |-> folder \ (loaded.images \ allowed_images)]

\* the inner loop of exclude_only for one value, over the images from n on in
\* the order of self.images: os.remove of a file that is gone raises
RECURSIVE RemoveMatching(_, _, _, _)
RemoveMatching(order, n, value, st) ==
    IF n > Len(order) \/ st.raised THEN st
    ELSE RemoveMatching(order, n + 1, value,
            IF ~StartsWith(FileName(order[n]), value) THEN st
            ELSE IF order[n] \notin st.files
            THEN [st EXCEPT !.raised = TRUE,
                            !.removals = Append(@, order[n])]
            ELSE [st EXCEPT !.files = @ \ {order[n]},
                            !.removals = Append(@, order[n])])

\* the outer loop of exclude_only, from the k-th value on
RECURSIVE RemoveOverValues(_, _, _, _)
RemoveOverValues(order, values, k, st) ==
    IF k > Len(values) \/ st.raised THEN st
    ELSE RemoveOverValues(order, values, k + 1,
                          RemoveMatching(order, 1, values[k], st))

\* the elements of a set of entries in ascending order
RECURSIVE Ascending(_)
Ascending(set) ==
    IF set = {} THEN << >>
    ELSE LET least == CHOOSE x \in set : \A y \in set : x <= y IN
         <<least>> \o Ascending(set \ {least})

\* exclude_only(values): load_images, the removals, then
\* verify_preprocessed_images; removals are the calls of os.remove
ExcludeOnly(held, folder, values) ==
    LET loaded == LoadImages(held, folder)
        start == [raised |-> FALSE, files |-> folder, removals |-> << >>]
        done == RemoveOverValues(Ascending(loaded.images), values, 1, start) IN
    IF loaded.raised
    THEN [raised |-> TRUE, images |-> loaded.images, files |-> folder,
          removals |-> << >>]
    ELSE [raised |-> done.raised
                     \/ VerifyPreprocessedImages(loaded.images).raised,
          images |-> loaded.images,
          files |-> done.files,
          removals |-> done.removals]

\* Factory.__init__ from self.images = {} on: the preloading with the
\* selected option, then load_images
FactoryImages(folder, option, values) ==
    LET pre == CASE option = "selectOnly" -> SelectOnly({}, folder, values)
                 [] option = "excludeOnly" -> ExcludeOnly({}, folder, values)
                 [] OTHER -> [raised |-> FALSE, images |-> {}, files |-> folder]
        loaded == LoadImages(pre.images, pre.files) IN
    [raised |-> pre.raised \/ loaded.raised,
     images |-> IF pre.raised THEN pre.images ELSE loaded.images,
     files |-> pre.files]

\* the keys of self.images
ImageKeys == {FileName(images[k]) : k \in 1..Len(images)}

\* what the binary prints about one image: "<text>: <path> - Result: <value>*"
Digits == <<"1", "2", "3", "4", "5", "6", "7", "8">>

ValueOf(n) == Digits[((n - 1) % Len(Digits)) + 1]

OutputLine(n) ==
    <<"Image", ": ">> \o PathOf(n) \o <<" ", "-", " Result: ", ValueOf(n), "*">>

\* an incidental log line, and a line with the separator " Result: " once but
\* no ": " before it
LogLine == <<"Loading", " ", "model">>

MalformedLine == <<"Warning", " Result: ", "none">>

\* _run_subprocess on success: the decoded output split into lines; the
\* binary is opaque: it prints a log line and one line per image path, and
\* in a malformed output one line more
RunSubprocess(batch, malformed) ==
    <<LogLine>> \o [k \in 1..Len(batch) |-> OutputLine(batch[k])]
    \o (IF malformed THEN <<MalformedLine>> ELSE << >>)

\* the test of _process_results with ">= 2" for "== 2"
AcceptedLoose(parts) == Len(parts) >= 2

\* len(parts) == 2
Accepted(parts) == Len(parts) = 2

\* one iteration of the loop of _process_results: the line is skipped, or
\* parts[0].split(": ")[1] raises IndexError, or a record is appended
ParseLine(line, c) ==
    LET parts == SplitOn(line, {" Result: "}) IN
    IF ~Accepted(parts) THEN [kind |-> "skip", rec |-> << >>]
    ELSE LET fields == SplitOn(parts[1], {": "}) IN
         IF Len(fields) < 2 THEN [kind |-> "raise", rec |-> << >>]
         ELSE [kind |-> "record",
               rec |-> <<SplitExt(StripChars(Basename(fields[2]), {" ", "-"})),
                         c,
                         StripChars(SelectSeq(parts[2], LAMBDA x : x # "*"), {" "})>>]

\* _process_results over the first n lines: whether it raised, and the records
RECURSIVE ParseLines(_, _, _)
ParseLines(lines, c, n) ==
    IF n = 0 THEN [raised |-> FALSE, records |-> << >>]
    ELSE LET before == ParseLines(lines, c, n - 1)
             this == ParseLine(lines[n], c) IN
         [raised |-> before.raised \/ this.kind = "raise",
          records |-> IF this.kind = "record"
                      THEN Append(before.records, this.rec)
                      ELSE before.records]

\* _process_results
ProcessResults(lines, c) == ParseLines(lines, c, Len(lines))

\* the batches of the image paths: image_paths[a:b]
Batches == {Slice(ImagePaths(MaxImages), a, b) : a, b \in 0..MaxImages}

\* _process_results over the output of _run_subprocess, for every batch, with
\* and without a malformed line in the output, evaluated once
ProcessedOutputs ==
    {<<b, m, c, ProcessResults(RunSubprocess(b, m), c)>> :
        b \in Batches, m \in BOOLEAN, c \in Commands}

\* self._process_results(self._run_subprocess(binary_path, batch), command)
RunAndProcess(b, m, c) ==
    (CHOOSE p \in ProcessedOutputs : p[1] = b /\ p[2] = m /\ p[3] = c)[4]

\* the 1-tuple appended when a retry sub-batch fails
ErrorEntry == <<"FBIN2_P">>

IsRecord(e) == Len(e) = 3

\* a fold that replaces the whole entry of the image
RECURSIVE FoldByImage(_, _)
FoldByImage(rs, n) ==
    IF n = 0 THEN {}
    ELSE {t \in FoldByImage(rs, n - 1) : t[1] # rs[n][1]} \cup {rs[n]}

\* results_dict[image][model] = result, over the first n entries of rs;
\* the table is the set of its (image, model, result) cells
RECURSIVE Fold(_, _)
Fold(rs, n) ==
    IF n = 0 THEN {}
    ELSE {t \in Fold(rs, n - 1) : ~(t[1] = rs[n][1] /\ t[2] = rs[n][2])}
         \cup {rs[n]}

\* sequential_results.extend(result) for each result of pool.map
RECURSIVE Flatten(_, _)
Flatten(cs, n) ==
    IF n = 0 THEN << >> ELSE Flatten(cs, n - 1) \o cmd[cs[n]].results

\* ------------------------------------------------------------ the export
\* the delimiters of re.split(r'[_-]', ...)
Delimiters == {"_", "-"}

Tokens(text) == SplitOn(text, Delimiters)

\* custom['exportSeparation'] absent or empty, and the sentinel
NoFactor == << >>
Nenhum == <<"Nenhum">>

\* the values of config['NAMING_CONVENTION'] (empty: not specified)
Conventions ==
    {<< >>,
     <<"species", "_", "genotype", "_", "rep">>,
     <<"rep", "-", "genotype", "_", "rep">>,
     <<"Nenhum", "_", "rep">>}

\* the values of custom['exportSeparation']
Factors ==
    {NoFactor, Nenhum, <<"species">>, <<"genotype">>, <<"rep">>, <<"plot">>}

\* list.index: the 0-based index of the first occurrence
IndexOf(parts, x) ==
    (CHOOSE k \in 1..Len(parts) :
        parts[k] = x /\ \A m \in 1..(k - 1) : parts[m] # x) - 1

SeparationValueZeroBased(parts, factor) == IndexOf(parts, factor)

\* naming_convention_parts.index(separating_factor) + 1
SeparationValue(parts, factor) == IndexOf(parts, factor) + 1

\* a resolution that takes an unmatched separating factor for no separation
LoadExportSeparationLenient(factor, convention) ==
    IF factor = NoFactor \/ factor = Nenhum \/ convention = << >>
       \/ factor \notin SeqRange(Tokens(convention))
    THEN [raised |-> FALSE, value |-> 0]
    ELSE [raised |-> FALSE,
          value |-> SeparationValue(Tokens(convention), factor)]

\* load_export_separation: value 0 stands for False
LoadExportSeparation(factor, convention) ==
    IF factor = NoFactor \/ factor = Nenhum
    THEN [raised |-> FALSE, value |-> 0]
    ELSE IF convention = << >>
    THEN [raised |-> TRUE, value |-> 0]
    ELSE LET parts == Tokens(convention) IN
         IF factor \in SeqRange(parts)
         THEN [raised |-> FALSE, value |-> SeparationValue(parts, factor)]
         ELSE [raised |-> TRUE, value |-> 0]

\* position is None
NoPosition == -1

\* position = self.separate_exports - 1 if self.separate_exports else None
Position(separate_exports) ==
    IF separate_exports # 0 THEN separate_exports - 1 ELSE NoPosition

\* the images of a table of (image, model, result) cells
ImagesOf(table) == {t[1] : t \in table}

\* len(parts) > position
HasPosition(image, position) == Len(Tokens(image)) > position

\* base_name = parts[position]
BaseName(image, position) == Tokens(image)[position + 1]

GroupOfOne(table, position, key) ==
    LET members == {i \in ImagesOf(table) :
                       HasPosition(i, position) /\ BaseName(i, position) = key}
        kept == CHOOSE i \in members : TRUE IN
    {t \in table : t[1] = kept}

\* separated_results[base_name]: the data of every image of the group
GroupOf(table, position, key) ==
    {t \in table : HasPosition(t[1], position) /\ BaseName(t[1], position) = key}

\* _group_results_by_position: base_name -> the group's table
GroupResultsByPosition(table, position) ==
    LET keys == {BaseName(i, position) :
                    i \in {x \in ImagesOf(table) : HasPosition(x, position)}} IN
    [key \in keys |-> GroupOf(table, position, key)]

\* str.lower on the words of the file names in use
LowerWord(w) ==
    CASE w = "A" -> "a" [] w = "B" -> "b" [] w = "G7" -> "g7"
      [] w = "G8" -> "g8" [] OTHER -> w

Lower(text) == [k \in 1..Len(text) |-> LowerWord(text[k])]

\* the formats with an _export_to_<format> method
FileFormats == {"csv", "json"}

Formats == FileFormats \cup {"connected_database"}

\* the file _export_to_<format> writes for a table name
FileOf(base_name, f) == Lower(base_name) \o <<".", f>>

\* the orders in which a recipe can list its enabled file formats
FormatOrders(formats) ==
    LET fs == formats \cap FileFormats IN
    {order \in UNION {[1..n -> fs] : n \in 0..Cardinality(fs)} :
        /\ Len(order) = Cardinality(fs)
        /\ \A a, b \in 1..Len(order) : order[a] = order[b] => a = b}

\* a loop over the formats that a failing writer leaves
CalledUntilFailure(order, base_name, broken) ==
    {order[k] : k \in {m \in 1..Len(order) :
                          \A j \in 1..(m - 1) : FileOf(base_name, order[j]) \notin broken}}

\* for format_name, enabled in self.exportation_formats.items(): the writer of
\* every enabled format with a writer is called; a writer prints and swallows
\* its own failure, so the loop goes on to the next format
Called(order, base_name, broken) ==
    {order[k] : k \in 1..Len(order)}

\* an export whose rows are those of one image only
ExportToFormatsOneImage(base_name, data, order, broken) ==
    LET rows == {t \in data : t[1] = (CHOOSE i \in ImagesOf(data) : TRUE)}
        called == Called(order, base_name, broken) IN
    IF data = {}
    THEN [raised |-> TRUE, tables |-> {}, attempted |-> {}, files |-> {}]
    ELSE [raised |-> FALSE,
          tables |-> {[name |-> base_name, rows |-> rows]},
          attempted |-> {FileOf(base_name, f) : f \in called},
          files |-> {[file |-> FileOf(base_name, f), rows |-> rows] :
                        f \in {g \in called : FileOf(base_name, g) \notin broken}}]

\* _export_to_formats: raises ValueError when there are no rows; otherwise
\* builds the table and calls the writer of each enabled format in the order
\* of the recipe; the files in broken are those whose writing fails
ExportToFormats(base_name, data, order, broken) ==
    LET called == Called(order, base_name, broken) IN
    IF data = {}
    THEN [raised |-> TRUE, tables |-> {}, attempted |-> {}, files |-> {}]
    ELSE [raised |-> FALSE,
          tables |-> {[name |-> base_name, rows |-> data]},
          attempted |-> {FileOf(base_name, f) : f \in called},
          files |-> {[file |-> FileOf(base_name, f), rows |-> data] :
                        f \in {g \in called : FileOf(base_name, g) \notin broken}}]

\* ResultsExporter.export_results
ExporterExportResults(table, separate_exports, order, broken) ==
    LET position == Position(separate_exports) IN
    IF position = NoPosition
    THEN ExportToFormats(<<"results">>, table, order, broken)
    ELSE LET groups == GroupResultsByPosition(table, position)
             each == [key \in DOMAIN groups |->
                         ExportToFormats(key, groups[key], order, broken)] IN
         [raised |-> \E key \in DOMAIN groups : each[key].raised,
          tables |-> UNION {each[key].tables : key \in DOMAIN groups},
          attempted |-> UNION {each[key].attempted : key \in DOMAIN groups},
          files |-> UNION {each[key].files : key \in DOMAIN groups}]

\* ------------------------------------------------------ the relational sink
\* what the configuration says about the database: usable, ENABLE_DB false,
\* no file at DB_PATH, no table DB_NAME in the file
DbConfigs == {"ok", "disabled", "no_file", "no_table"}

\* load_database: FileNotFoundError (FDB3) or ValueError (FDB2) is raised;
\* with ENABLE_DB false nothing is done and db_conn stays None
LoadDatabase(config) ==
    [raised |-> config \in {"no_file", "no_table"},
     connected |-> config = "ok"]

\* results.columns: image and one column per model with a result
FrameColumns(table) == {"image"} \cup {t[2] : t \in table}

\* the values of one row of results_pd, by column; a model without a result
\* for the image is NaN, which is stored as NULL: no cell
FrameRow(table, image) == {<<t[2], t[3]>> : t \in {u \in table : u[1] = image}}

\* a row of the database table
DbRow(image, cells) == [image |-> image, cells |-> cells]

\* UPDATE ... SET <every column of results_pd but image> WHERE image = ?
UpdateRow(row, columns, cells) ==
    [row EXCEPT !.cells = {x \in @ : x[1] \notin columns} \cup cells]

\* an export that inserts without looking for the image
UpsertRowInsertOnly(rows, table, image) ==
    Append(rows, DbRow(image, FrameRow(table, image)))

\* SELECT 1 ... WHERE image = ?, then UPDATE if a row exists, else INSERT
UpsertRow(rows, table, image) ==
    IF \E k \in 1..Len(rows) : rows[k].image = image
    THEN [k \in 1..Len(rows) |->
            IF rows[k].image = image
            THEN UpdateRow(rows[k], FrameColumns(table), FrameRow(table, image))
            ELSE rows[k]]
    ELSE Append(rows, DbRow(image, FrameRow(table, image)))

\* for index, row in results.iterrows(): the rows left to do, one at a time
RECURSIVE UpsertRows(_, _, _)
UpsertRows(rows, table, todo) ==
    IF todo = {} THEN rows
    ELSE LET image == CHOOSE i \in todo : TRUE IN
         UpsertRows(UpsertRow(rows, table, image), table, todo \ {image})

\* export_connecteddb on a connection in its default mode: an ALTER TABLE
\* runs outside any transaction and stays; the row statements open one
\* transaction, which commit() ends; an exception is raised again without
\* commit, so the row changes are lost when the connection is dropped.
\* fail: where an exception is raised, while the columns are added (FBSQL3)
\* or at a row (FBSQL4); added: the columns added before the failing ALTER TABLE
ExportConnectedDbRecreating(columns, rows, table, fail, added) ==
    LET missing == FrameColumns(table) \ columns IN
    CASE fail = "columns" ->
            [raised |-> TRUE, columns |-> columns \cup added, rows |-> rows]
      [] fail = "rows" ->
            [raised |-> TRUE, columns |-> columns \cup missing, rows |-> rows]
      [] OTHER ->
            [raised |-> FALSE, columns |-> FrameColumns(table),
             rows |-> UpsertRows(rows, table, ImagesOf(table))]

ExportConnectedDb(columns, rows, table, fail, added) ==
    LET missing == FrameColumns(table) \ columns IN
    CASE fail = "columns" ->
            [raised |-> TRUE, columns |-> columns \cup added, rows |-> rows]
      [] fail = "rows" ->
            [raised |-> TRUE, columns |-> columns \cup missing, rows |-> rows]
      [] OTHER ->
            [raised |-> FALSE, columns |-> columns \cup missing,
             rows |-> UpsertRows(rows, table, ImagesOf(table))]

\* ------------------------------------------------------------------- state
Invocation(kind, idx, imgs) == [kind |-> kind, idx |-> idx, imgs |-> imgs]

\* no pure function is under evaluation
IdlePure == [op |-> "none", in |-> << >>, out |-> << >>, applied |-> FALSE]

IdleCommand ==
    [cpc |-> "idle",        \* position of _execute_command
     i |-> 0,               \* i / batch_index
     j |-> 0,               \* j of the retry loop
     results |-> << >>,     \* results
     invoked |-> << >>,     \* the calls of _run_subprocess made so far
     handled |-> {},        \* batch starts whose outcome has been handled
     failed |-> {},         \* batch starts whose invocation failed
     retried |-> {},        \* batch starts whose retry loop ran to its end
     retry_failed |-> FALSE,\* some retry sub-batch failed
     malformed |-> {},      \* batch starts whose output held a malformed line
     retry_malformed |-> FALSE, \* the output of some retry sub-batch did
     futures |-> {},        \* the futures that are done: (batch start, outcome)
     cwd |-> "caller",      \* os.getcwd() of the worker process
     ocwd |-> "caller",     \* Utils().ocwd
     cwds |-> {},           \* the working directories the invocations ran in
     ret |-> "none"]        \* how the call ended

\* the state after Factory.__init__
InitWith(n, others, keep, todo, cmds, b, fm, ncpu) ==
    /\ images = ImagePaths(n)
    /\ files = keep \cup others
    /\ pending = todo
    /\ commands = cmds
    /\ batch_size = b
    /\ force_max = fm
    /\ cpu = ncpu
    /\ pc = "start"
    /\ copied = {}
    /\ wait_time = 0
    /\ sleeps = 0
    /\ last_sleep = 0
    /\ sleep_parity = 0
    /\ num_processes = 0
    /\ cmd = [c \in Commands |-> IdleCommand]
    /\ failures = 0
    /\ sequential_results = << >>
    /\ results_dict = {}
    /\ tables = {}
    /\ written = {}
    /\ attempted = {}
    /\ export_calls = 0
    /\ recipe_calls = << >>
    /\ db_outcome = "none"
    /\ fallback = "none"
    /\ pure = IdlePure

\* the recipe's export formats, the separating factor and the naming convention
InitExport(factor, convention, formats) ==
    /\ export_separation = factor
    /\ naming_convention = convention
    /\ exportation_formats = formats

\* the database table with its image column and no row
EmptyDb == [columns |-> {"image"}, rows |-> << >>]

\* what the program finds outside itself: the database the configuration
\* names, and the binaries that never exit
InitOutside(config, db, hang) ==
    /\ db_config = config
    /\ db_columns = db.columns
    /\ db_rows = db.rows
    /\ hanging = hang

\* no preloading, one enabled command: every image of the ImageSet is in the
\* folder; the whole range of image counts and batch sizes, the batches run
\* by threads when there are at most MaxThreadBatches of them
InitPlain ==
    \E n \in 1..MaxImages, b \in 1..MaxBatch :
      \E fm \in IF CeilDiv(n, b) <= MaxThreadBatches
                 THEN BOOLEAN ELSE {FALSE} :
        /\ InitWith(n, {}, 1..n, {},
                    [c \in Commands |-> c = CommandOrder[1]], b, fm, 1)
        /\ InitExport(NoFactor, << >>, {"csv"})
        /\ InitOutside("disabled", EmptyDb, {})

\* every recipe over the commands, every cpu_count, at most one binary that
\* never exits; results grouped by genotype. In the smallest of these runs
\* the image may still be on its way into the folder, or the separating
\* factor is no token of the naming convention
InitPool ==
    \E n \in 1..MaxPoolImages, fm \in BOOLEAN,
       cmds \in [Commands -> BOOLEAN], ncpu \in 1..MaxCpu,
       hang \in {h \in SUBSET Commands : Cardinality(h) <= 1} :
      \E todo \in IF n = 1 /\ ~fm /\ ncpu = 1 /\ hang = {}
                   THEN SUBSET {n} ELSE {{}} :
       \E factor \in IF n = 1 /\ ~fm /\ ncpu = 1 /\ hang = {} /\ todo = {}
                      THEN {<<"genotype">>, <<"plot">>} ELSE {<<"genotype">>} :
        /\ InitWith(n, {}, (1..n) \ todo, todo, cmds, MaxSmallBatch, fm, ncpu)
        /\ InitExport(factor, <<"species", "_", "genotype", "_", "rep">>,
                      {"json"})
        /\ InitOutside("disabled", EmptyDb, hang)

\* preloading with selectOnly: the images not selected were removed from the
\* folder after load_images had put them into self.images. In the smallest
\* of these runs the binary of the command may never exit
InitSelectOnly ==
    \E n \in 1..MaxSmallImages, others \in SUBSET OtherEntries,
       values \in (SUBSET PrefixValues) \ {{}}, fm \in BOOLEAN :
        \E todo \in SUBSET (((1..n) \cup OtherEntries) \ (AllowedImages(n, values) \cup others)),
           hang \in IF n = 1 /\ others = {}
                    THEN SUBSET {CommandOrder[1]} ELSE {{}} :
            /\ InitWith(n, others, AllowedImages(n, values), todo,
                        [c \in Commands |-> c = CommandOrder[1]],
                        MaxSmallBatch, fm, 1)
            /\ InitExport(Nenhum, <<"species", "_", "genotype", "_", "rep">>,
                          {})
            /\ InitOutside("disabled", EmptyDb, hang)

\* every export configuration, over one enabled command in sequential mode;
\* the upload folder may hold no image at all
InitGrouping ==
    \E n \in 0..MaxSmallImages, factor \in Factors,
       convention \in Conventions, formats \in SUBSET Formats :
        /\ InitWith(n, {}, 1..n, {},
                    [c \in Commands |-> c = CommandOrder[1]], MaxSmallBatch, FALSE, 1)
        /\ InitExport(factor, convention, formats)
        /\ InitOutside("ok", EmptyDb, {})

\* the recipe enables the connected database: every state of the database
\* configuration, over a table with no row or with the row of an earlier run
InitDatabase ==
    \E n \in 1..MaxSmallImages, config \in DbConfigs,
       formats \in {{"connected_database"}, {"connected_database", "csv"}},
       db \in {EmptyDb,
               [columns |-> {"image"}, rows |-> <<DbRow(StemOf(1), {})>>]} :
        /\ InitWith(n, {}, 1..n, {},
                    [c \in Commands |-> c = CommandOrder[1]], MaxSmallBatch, FALSE, 1)
        /\ InitExport(NoFactor, << >>, formats)
        /\ InitOutside(config, db, {})

Init == InitPlain \/ InitPool \/ InitSelectOnly \/ InitGrouping \/ InitDatabase

\* ------------------------------------------------- execute_recipes_parallel
\* true_commands, expected_images, the first listing, wait_time = 1
Begin ==
    /\ pc = "start"
    /\ pc' = "wait"
    /\ copied' = files
    /\ wait_time' = InitialWait
    /\ UNCHANGED <<images, files, pending, commands, batch_size, force_max, cpu,
                   sleeps, last_sleep, sleep_parity, num_processes, cmd, failures,
                   sequential_results, results_dict,
                   export_config, exported, binaries, fallback, pure>>

\* one iteration of the while loop: sleep, double, list again
Sleep ==
    /\ pc = "wait"
    /\ Cardinality(copied) < Len(images)
    /\ last_sleep' = wait_time
    /\ sleeps' = Min(sleeps + 1, MaxSleeps)
    /\ sleep_parity' = 1 - sleep_parity
    /\ wait_time' = Backoff(wait_time)
    /\ copied' = files
    /\ UNCHANGED <<images, files, pending, commands, batch_size, force_max, cpu,
                   pc, num_processes, cmd, failures, sequential_results,
                   results_dict,
                   export_config, exported, binaries, fallback, pure>>

\* one iteration of the while loop in which os.listdir raises after the
\* sleep, the folder being gone: FPAR2, return e
ListdirFails ==
    /\ pc = "wait"
    /\ Cardinality(copied) < Len(images)
    /\ failures < MaxFailures
    /\ failures' = failures + 1
    /\ last_sleep' = wait_time
    /\ sleeps' = Min(sleeps + 1, MaxSleeps)
    /\ sleep_parity' = 1 - sleep_parity
    /\ wait_time' = Backoff(wait_time)
    /\ pc' = "failed"
    /\ UNCHANGED <<images, files, pending, commands, batch_size, force_max, cpu,
                   copied, num_processes, cmd, sequential_results,
                   results_dict, export_config, exported, binaries, fallback,
                   pure>>

\* a pool of one worker
PoolSizeOne(p, k) == Min(1, k)

\* num_processes = min(cpu_count(), len(self.true_commands))
PoolSize(p, k) == Min(p, k)

\* the loop ends; num_processes; Pool(processes=0) raises ValueError (FPAR3)
OpenPool ==
    /\ pc = "wait"
    /\ ~(Cardinality(copied) < Len(images))
    /\ num_processes' = PoolSize(cpu, Len(TrueCommands))
    /\ pc' = IF PoolSize(cpu, Len(TrueCommands)) < 1 THEN "failed" ELSE "pool"
    /\ UNCHANGED <<images, files, pending, commands, batch_size, force_max, cpu,
                   copied, wait_time, sleeps, last_sleep, sleep_parity, cmd, failures,
                   sequential_results, results_dict,
                   export_config, exported, binaries, fallback, pure>>

\* the outside producer copies one more entry into the upload folder
CopyFile ==
    /\ \E f \in pending :
        /\ files' = files \cup {f}
        /\ pending' = pending \ {f}
    /\ UNCHANGED <<images, commands, batch_size, force_max, cpu, pc, copied,
                   wait_time, sleeps, last_sleep, sleep_parity, num_processes, cmd, failures,
                   sequential_results, results_dict,
                   export_config, exported, binaries, fallback, pure>>

Frame == UNCHANGED <<images, files, pending, commands, batch_size, force_max,
                     cpu, pc, copied, wait_time, sleeps, last_sleep, sleep_parity,
                     num_processes, sequential_results, results_dict,
                   export_config, exported, binaries, fallback, pure>>

InFlight == {c \in Commands : cmd[c].cpc \notin {"idle", "done", "raised"}}

\* a pool worker takes the next task of pool.map, in the order of true_commands
StartCommand(c) ==
    /\ pc = "pool"
    /\ commands[c]
    /\ cmd[c].cpc = "idle"
    /\ Cardinality(InFlight) < num_processes
    /\ \A k \in 1..Len(TrueCommands) :
          TrueCommands[k] = c =>
              \A m \in 1..(k - 1) : cmd[TrueCommands[m]].cpc # "idle"
    /\ cmd' = [cmd EXCEPT ![c].cpc = "resolve"]
    /\ UNCHANGED failures
    /\ Frame

\* --------------------------------------------------------- _execute_command
\* {executor.submit(..., image_paths[i:i + batch_size]): i
\*  for i in range(0, len(image_paths), batch_size)}: the batches submitted to
\* the thread pool from start i on, in submission order
RECURSIVE SubmittedFrom(_)
SubmittedFrom(i) ==
    IF i >= Len(images) THEN << >>
    ELSE <<Invocation("batch", i, Batch(images, i, batch_size))>>
         \o SubmittedFrom(i + batch_size)

Submitted == SubmittedFrom(0)

\* load_config or _get_binary_path raises: the outer except runs "return
\* results" before results was bound, so the call raises UnboundLocalError
ResolveRaises(c) ==
    /\ cmd[c].cpc = "resolve"
    /\ failures < MaxFailures
    /\ failures' = failures + 1
    /\ cmd' = [cmd EXCEPT ![c].cpc = "raised", ![c].ret = "unbound"]
    /\ Frame

\* results = [] is bound, then change_directory or config[...] raises: the
\* outer except swallows it and the empty list is returned
EnterFails(c) ==
    /\ cmd[c].cpc = "resolve"
    /\ BinaryPath(c) # << >>
    /\ failures < MaxFailures
    /\ failures' = failures + 1
    /\ cmd' = [cmd EXCEPT ![c].cpc = "done", ![c].ret = "outer_except"]
    /\ Frame

\* the binary path is resolved, results = [], the directory is entered; in
\* FORCE_MAXPERFORMANCE mode every batch is submitted to the executor
Enter(c) ==
    /\ cmd[c].cpc = "resolve"
    /\ BinaryPath(c) # << >>
    /\ cmd' = [cmd EXCEPT ![c].cpc = "run",
                          ![c].i = 0,
                          ![c].ocwd = cmd[c].cwd,
                          ![c].cwd = "binary",
                          ![c].invoked = IF force_max THEN Submitted ELSE << >>]
    /\ UNCHANGED failures
    /\ Frame

\* the futures that are done
Completed(st) == {f[1] : f \in st.futures}

\* the end of "with ThreadPoolExecutor() as executor": shutdown waits for the
\* threads of the batches still running; nobody reads their futures
ExecutorExit(st) ==
    LET unread == BatchStarts(Len(images), batch_size) \ Completed(st) IN
    IF force_max /\ unread # {}
    THEN [st EXCEPT !.futures = @ \cup {<<i, "unread">> : i \in unread},
                    !.cwds = @ \cup {st.cwd}]
    ELSE st

\* a context manager that does not go back
ChangeDirectoryExitStays(st) == st

\* the finally clause of change_directory: os.chdir(self.ocwd)
ChangeDirectoryExit(st) == [st EXCEPT !.cwd = st.ocwd]

\* the with blocks of _execute_command are left, by return or by exception
Leave(st) == ChangeDirectoryExit(ExecutorExit(st))

\* the except branch of a failed batch starting at i: range(i, i + batch_size,
\* batch_size // 2) raises ValueError when the step is 0, which the outer
\* except swallows; otherwise the retry loop starts at j = i
AfterBatchFailure(st, i) ==
    IF Half(batch_size) = 0
    THEN Leave([st EXCEPT !.failed = @ \cup {i}, !.i = i,
                          !.cpc = "done", !.ret = "outer_except"])
    ELSE [st EXCEPT !.failed = @ \cup {i}, !.i = i, !.j = i, !.cpc = "retry"]

\* sequential mode: the next batch is invoked and succeeds
BatchOk(c) ==
    /\ cmd[c].cpc = "run"
    /\ ~force_max
    /\ c \notin hanging
    /\ cmd[c].i < Len(images)
    /\ LET b == Batch(images, cmd[c].i, batch_size) IN
        cmd' = [cmd EXCEPT
                  ![c].invoked = Append(@, Invocation("batch", cmd[c].i, b)),
                  ![c].cwds = @ \cup {cmd[c].cwd},
                  ![c].results = @ \o RunAndProcess(b, FALSE, c).records,
                  ![c].handled = @ \cup {cmd[c].i},
                  ![c].i = @ + batch_size]
    /\ UNCHANGED failures
    /\ Frame

\* sequential mode: the next batch is invoked and fails
BatchFails(c) ==
    /\ cmd[c].cpc = "run"
    /\ ~force_max
    /\ c \notin hanging
    /\ cmd[c].i < Len(images)
    /\ failures < MaxFailures
    /\ failures' = failures + 1
    /\ LET b == Batch(images, cmd[c].i, batch_size)
           st == [cmd[c] EXCEPT
                    !.invoked = Append(@, Invocation("batch", cmd[c].i, b)),
                    !.cwds = @ \cup {cmd[c].cwd}] IN
        cmd' = [cmd EXCEPT ![c] = AfterBatchFailure(st, cmd[c].i)]
    /\ Frame

\* sequential mode: the next batch is invoked, the process succeeds and its
\* output holds a malformed line: _process_results raises IndexError inside
\* the try block, so the except branch of a failed batch runs
BatchMalformed(c) ==
    /\ cmd[c].cpc = "run"
    /\ ~force_max
    /\ c \notin hanging
    /\ cmd[c].i < Len(images)
    /\ failures < MaxFailures
    /\ failures' = failures + 1
    /\ LET b == Batch(images, cmd[c].i, batch_size)
           out == RunAndProcess(b, TRUE, c)
           st == [cmd[c] EXCEPT
                    !.invoked = Append(@, Invocation("batch", cmd[c].i, b)),
                    !.cwds = @ \cup {cmd[c].cwd},
                    !.malformed = @ \cup {cmd[c].i}] IN
        cmd' = [cmd EXCEPT ![c] =
                  IF out.raised
                  THEN AfterBatchFailure(st, cmd[c].i)
                  ELSE [st EXCEPT !.results = @ \o out.records,
                                  !.handled = @ \cup {cmd[c].i},
                                  !.i = @ + batch_size]]
    /\ Frame

\* a thread that appends its records to the results of the command
ThreadWritesResults(st, c, i, outcome) ==
    [st EXCEPT !.futures = @ \cup {<<i, outcome>>},
               !.cwds = @ \cup {st.cwd},
               !.results = @ \o (IF outcome = "ok"
                                 THEN RunAndProcess(Batch(images, i, batch_size),
                                                    FALSE, c).records
                                 ELSE << >>)]

\* what a thread of the executor writes when _run_subprocess ends: the result
\* or the exception of its own future
ThreadWrites(st, c, i, outcome) ==
    [st EXCEPT !.futures = @ \cup {<<i, outcome>>},
               !.cwds = @ \cup {st.cwd}]

\* the futures that are done and that as_completed has not yet yielded
Uncollected(st) == Completed(st) \ (st.handled \cup st.failed)

\* FORCE_MAXPERFORMANCE mode: a thread of the executor runs _run_subprocess on
\* the batch starting at i, while the collecting thread waits, collects or
\* retries: the process exits normally, fails, or prints a malformed line
ThreadRuns(c, i) ==
    /\ cmd[c].cpc \in {"run", "retry"}
    /\ force_max
    /\ c \notin hanging
    /\ i \in BatchStarts(Len(images), batch_size) \ Completed(cmd[c])
    /\ Cardinality(Uncollected(cmd[c])) < MaxReady
    /\ \E outcome \in {"ok", "failed", "malformed"} :
        /\ outcome # "ok" => failures < MaxFailures
        /\ failures' = IF outcome = "ok" THEN failures ELSE failures + 1
        /\ cmd' = [cmd EXCEPT ![c] = ThreadWrites(cmd[c], c, i, outcome)]
    /\ Frame

\* the binary never exits: check_output does not return. Sequential mode
\* stays in the first batch; in FORCE_MAXPERFORMANCE mode no future is ever
\* done and as_completed waits
Blocks(c) ==
    /\ cmd[c].cpc = "run"
    /\ c \in hanging
    /\ Len(images) > 0
    /\ cmd' = [cmd EXCEPT
                 ![c].cpc = "blocked",
                 ![c].cwds = @ \cup {cmd[c].cwd},
                 ![c].invoked = IF force_max THEN @
                                ELSE Append(@, Invocation("batch", 0,
                                                Batch(images, 0, batch_size)))]
    /\ UNCHANGED failures
    /\ Frame

\* FORCE_MAXPERFORMANCE mode: as_completed yields the future of batch i, which
\* succeeded
CollectOk(c, i) ==
    /\ cmd[c].cpc = "run"
    /\ force_max
    /\ <<i, "ok">> \in cmd[c].futures
    /\ i \in BatchStarts(Len(images), batch_size) \ cmd[c].handled
    /\ cmd' = [cmd EXCEPT
                 ![c].results = @ \o RunAndProcess(Batch(images, i, batch_size),
                                                   FALSE, c).records,
                 ![c].handled = @ \cup {i}]
    /\ UNCHANGED failures
    /\ Frame

\* FORCE_MAXPERFORMANCE mode: as_completed yields the future of batch i, which
\* failed
CollectFails(c, i) ==
    /\ cmd[c].cpc = "run"
    /\ force_max
    /\ <<i, "failed">> \in cmd[c].futures
    /\ i \in BatchStarts(Len(images), batch_size) \ cmd[c].handled
    /\ UNCHANGED failures
    /\ cmd' = [cmd EXCEPT ![c] = AfterBatchFailure(cmd[c], i)]
    /\ Frame

\* FORCE_MAXPERFORMANCE mode: as_completed yields the future of batch i, which
\* succeeded with a malformed line in its output
CollectMalformed(c, i) ==
    /\ cmd[c].cpc = "run"
    /\ force_max
    /\ <<i, "malformed">> \in cmd[c].futures
    /\ i \in BatchStarts(Len(images), batch_size) \ cmd[c].handled
    /\ UNCHANGED failures
    /\ LET out == RunAndProcess(Batch(images, i, batch_size), TRUE, c)
           st == [cmd[c] EXCEPT !.malformed = @ \cup {i}] IN
        cmd' = [cmd EXCEPT ![c] =
                  IF out.raised
                  THEN AfterBatchFailure(st, i)
                  ELSE [st EXCEPT !.results = @ \o out.records,
                                  !.handled = @ \cup {i}]]
    /\ Frame

\* a retry loop of one iteration
AfterRetryStepOnce(st) ==
    [st EXCEPT !.cpc = "run",
               !.retried = @ \cup {st.i},
               !.handled = @ \cup {st.i},
               !.i = IF force_max THEN @ ELSE @ + batch_size]

\* the end of one iteration of the retry loop: the next j, or the loop is over
\* and the scheduler goes on (sequential: with the batch after i)
AfterRetryStep(st) ==
    IF st.j + Half(batch_size) < st.i + batch_size
    THEN [st EXCEPT !.j = @ + Half(batch_size)]
    ELSE [st EXCEPT !.cpc = "run",
                    !.retried = @ \cup {st.i},
                    !.handled = @ \cup {st.i},
                    !.i = IF force_max THEN @ ELSE @ + batch_size]

\* a retry sub-batch is invoked and succeeds
RetryOk(c) ==
    /\ cmd[c].cpc = "retry"
    /\ LET rb == RetryBatch(images, cmd[c].j, batch_size)
           st == [cmd[c] EXCEPT
                    !.invoked = Append(@, Invocation("retry", cmd[c].i, rb)),
                    !.cwds = @ \cup {cmd[c].cwd},
                    !.results = @ \o RunAndProcess(rb, FALSE, c).records] IN
        cmd' = [cmd EXCEPT ![c] = AfterRetryStep(st)]
    /\ UNCHANGED failures
    /\ Frame

\* a retry sub-batch is invoked and fails. Sequential mode appends the error
\* 1-tuple and goes on; FORCE_MAXPERFORMANCE mode raises RuntimeError, which
\* leaves the as_completed loop and is swallowed by the outer except
RetryFails(c) ==
    /\ cmd[c].cpc = "retry"
    /\ failures < MaxFailures
    /\ failures' = failures + 1
    /\ LET rb == RetryBatch(images, cmd[c].j, batch_size)
           st == [cmd[c] EXCEPT
                    !.invoked = Append(@, Invocation("retry", cmd[c].i, rb)),
                    !.cwds = @ \cup {cmd[c].cwd},
                    !.retry_failed = TRUE] IN
        cmd' = [cmd EXCEPT ![c] =
                  IF force_max
                  THEN Leave([st EXCEPT !.cpc = "done", !.ret = "outer_except"])
                  ELSE AfterRetryStep([st EXCEPT !.results = Append(@, ErrorEntry)])]
    /\ Frame

\* a retry sub-batch is invoked, the process succeeds and its output holds a
\* malformed line: _process_results raises inside the inner try block
RetryMalformed(c) ==
    /\ cmd[c].cpc = "retry"
    /\ failures < MaxFailures
    /\ failures' = failures + 1
    /\ LET rb == RetryBatch(images, cmd[c].j, batch_size)
           out == RunAndProcess(rb, TRUE, c)
           st == [cmd[c] EXCEPT
                    !.invoked = Append(@, Invocation("retry", cmd[c].i, rb)),
                    !.cwds = @ \cup {cmd[c].cwd}] IN
        cmd' = [cmd EXCEPT ![c] =
                  IF ~out.raised
                  THEN AfterRetryStep([st EXCEPT !.results = @ \o out.records])
                  ELSE IF force_max
                  THEN Leave([st EXCEPT !.retry_malformed = TRUE,
                                        !.cpc = "done", !.ret = "outer_except"])
                  ELSE AfterRetryStep([st EXCEPT !.retry_malformed = TRUE,
                                                 !.results = Append(@, ErrorEntry)])]
    /\ Frame

\* every batch has been handled: return results
Return(c) ==
    /\ cmd[c].cpc = "run"
    /\ IF force_max
       THEN cmd[c].handled = BatchStarts(Len(images), batch_size)
       ELSE cmd[c].i >= Len(images)
    /\ cmd' = [cmd EXCEPT ![c] = Leave([@ EXCEPT !.cpc = "done", !.ret = "normal"])]
    /\ UNCHANGED failures
    /\ Frame

\* ------------------------------------- execute_recipes_parallel, continued
\* pool.map returns once every task has ended; it re-raises a worker's
\* exception (FPAR3, return e), otherwise the lists are flattened
Join ==
    /\ pc = "pool"
    /\ \A c \in Commands : commands[c] => cmd[c].cpc \in {"done", "raised"}
    /\ IF \E c \in Commands : cmd[c].cpc = "raised"
       THEN /\ pc' = "failed"
            /\ UNCHANGED sequential_results
       ELSE /\ pc' = "export"
            /\ sequential_results' = Flatten(TrueCommands, Len(TrueCommands))
    /\ UNCHANGED <<images, files, pending, commands, batch_size, force_max, cpu,
                   copied, wait_time, sleeps, last_sleep, sleep_parity, num_processes, cmd,
                   failures, results_dict,
                   export_config, exported, binaries, fallback, pure>>

\* a file written again replaces the file of the same name
WriteFiles(old, new) ==
    {f \in old : \A g \in new : g.file # f.file} \cup new

\* the ways the database export of export_results can go for a configuration
\* and a table: the failure, and the columns added before a failing ALTER TABLE
DbRuns(config, columns, table) ==
    IF ~LoadDatabase(config).connected
    THEN {[fail |-> "none", added |-> {}]}
    ELSE {[fail |-> "none", added |-> {}]}
         \cup (IF table = {} THEN {} ELSE {[fail |-> "rows", added |-> {}]})
         \cup {[fail |-> "columns", added |-> a] :
                  a \in (SUBSET (FrameColumns(table) \ columns))
                            \ {FrameColumns(table) \ columns}}

\* how load_database and export_connecteddb end: FDB3 or FDB2 raised by
\* load_database; AttributeError (FBSQL2) when db_conn is still None; else the
\* outcome of the export itself
DbOutcome(config, run) ==
    IF LoadDatabase(config).raised THEN "load_raised"
    ELSE IF ~LoadDatabase(config).connected THEN "no_connection"
    ELSE IF run.fail = "none" THEN "committed"
    ELSE run.fail

\* the exception of export_results leaves execute_recipes_parallel, whose call
\* of it is in no try block, and reaches the except clause of the caller: the
\* fallback is due
FallbackAfter(raised) ==
    IF pc = "export" /\ raised THEN "due" ELSE fallback

\* where export_results leaves its caller: execute_recipes_parallel ends
\* normally or lets the exception through; in execute_recipe the exception
\* reaches handle_parallel_recipes_execution, which prints it and ends
AfterExport(raised) ==
    IF pc = "export" THEN (IF raised THEN "raised" ELSE "done") ELSE "exit"

\* export_results: load_export_separation raises on an invalid separating
\* factor; "for image, model, result in results" raises ValueError on an entry
\* that is not a 3-tuple; then the database export, if enabled, and the
\* exporter. Every exception is raised again (FPEXR, raise e)
ExportResults ==
    /\ pc \in {"export", "fallback_export"}
    /\ export_calls' = export_calls + 1
    /\ LET sep == LoadExportSeparation(export_separation, naming_convention)
           unpacked == \A k \in 1..Len(sequential_results) :
                           IsRecord(sequential_results[k])
           table == Fold(sequential_results, Len(sequential_results))
           use_db == "connected_database" \in exportation_formats IN
       IF sep.raised \/ ~unpacked
       THEN /\ pc' = AfterExport(TRUE)
            /\ fallback' = FallbackAfter(TRUE)
            /\ UNCHANGED <<results_dict, tables, written, attempted,
                           db_columns, db_rows, db_outcome, failures>>
       ELSE \E run \in DbRuns(db_config, db_columns, table),
               order \in FormatOrders(exportation_formats) :
            \E broken \in SUBSET ExporterExportResults(table, sep.value,
                                                       order, {}).attempted :
            LET sink == ExportConnectedDb(db_columns, db_rows, table,
                                          run.fail, run.added)
                outcome == DbOutcome(db_config, run)
                out == ExporterExportResults(table, sep.value, order, broken) IN
            /\ results_dict' = table
            /\ IF use_db /\ outcome # "committed"
               THEN /\ broken = {}
                    /\ failures' = failures
                    /\ db_outcome' = outcome
                    /\ db_columns' = IF outcome \in {"columns", "rows"}
                                     THEN sink.columns ELSE db_columns
                    /\ pc' = AfterExport(TRUE)
                    /\ fallback' = FallbackAfter(TRUE)
                    /\ UNCHANGED <<tables, written, attempted, db_rows>>
               ELSE /\ use_db \/ run.fail = "none"
                    /\ failures + Cardinality(broken) <= MaxFailures
                    /\ failures' = failures + Cardinality(broken)
                    /\ db_outcome' = IF use_db THEN outcome ELSE db_outcome
                    /\ db_columns' = IF use_db THEN sink.columns ELSE db_columns
                    /\ db_rows' = IF use_db THEN sink.rows ELSE db_rows
                    /\ tables' = out.tables
                    /\ attempted' = attempted \cup out.attempted
                    /\ written' = WriteFiles(written, out.files)
                    /\ pc' = AfterExport(out.raised)
                    /\ fallback' = FallbackAfter(out.raised)
    /\ UNCHANGED <<images, files, pending, commands, batch_size, force_max, cpu,
                   copied, wait_time, sleeps, last_sleep, sleep_parity, num_processes, cmd,
                   sequential_results, export_config, binaries, pure>>

\* ---------------------------------------- handle_parallel_recipes_execution
\* the records execute_recipe has after the first n enabled commands ran
\* without a failure, each over every image at once
RECURSIVE RecipeResults(_, _)
RecipeResults(cs, n) ==
    IF n = 0 THEN << >>
    ELSE RecipeResults(cs, n - 1) \o RunAndProcess(images, FALSE, cs[n]).records

\* one call of check_output made by execute_recipe: the command, the image
\* paths after the binary path, and the working directory after the command
RecipeCall(c, ok) ==
    [command |-> c, imgs |-> images, ok |-> ok, cwd_after |-> "caller"]

\* a loop that goes on with the next command after a failure
RecipeCallsAll(cs, k, bad) == [n \in 1..Len(cs) |-> RecipeCall(cs[n], n # k + 1)]

\* the calls of the loop of execute_recipe: the first k enabled commands
\* succeed, the next one fails (bad) and ends the loop
RecipeCalls(cs, k, bad) ==
    [n \in 1..k |-> RecipeCall(cs[n], TRUE)]
    \o (IF bad = "none" THEN << >>
        ELSE <<RecipeCall(cs[k + 1], FALSE)>>)

\* execute_recipes_parallel raised (FPAR_MASTER): execute_recipe runs the
\* enabled commands one after another, each binary over all the images in one
\* invocation. The first k commands succeed; a failure of the next one (the
\* process fails, or a malformed line raises IndexError after the records
\* before it were appended) is raised again and ends the loop (FER1); the
\* finally clause then exports what was collected
ExecuteRecipe ==
    /\ pc = "raised"
    /\ \E k \in 0..Len(TrueCommands), bad \in {"none", "process", "malformed"} :
        /\ (bad = "none") <=> (k = Len(TrueCommands))
        /\ bad # "none" => failures < MaxFailures
        /\ failures' = IF bad = "none" THEN failures ELSE failures + 1
        /\ sequential_results' =
              RecipeResults(TrueCommands, k)
              \o (IF bad = "malformed"
                  THEN RunAndProcess(images, TRUE, TrueCommands[k + 1]).records
                  ELSE << >>)
        /\ recipe_calls' = RecipeCalls(TrueCommands, k, bad)
    /\ pc' = "fallback_export"
    /\ fallback' = "ran"
    /\ UNCHANGED <<images, files, pending, commands, batch_size, force_max, cpu,
                   copied, wait_time, sleeps, last_sleep, sleep_parity,
                   num_processes, cmd, results_dict, export_config, exported,
                   hanging, pure>>

\* execute_recipes_parallel returned, None or the exception it caught (FPAR2,
\* FPAR3, FPAR4: return e): the caller ends without running execute_recipe
Finish ==
    /\ pc \in {"done", "failed"}
    /\ pc' = "exit"
    /\ UNCHANGED <<images, files, pending, commands, batch_size, force_max, cpu,
                   copied, wait_time, sleeps, last_sleep, sleep_parity,
                   num_processes, cmd, failures, sequential_results,
                   results_dict, export_config, exported, binaries, fallback,
                   pure>>

\* the steps of the worker process that runs the pipeline of command c, and
\* of the threads of its executor
CommandNext(c) ==
    \/ StartCommand(c)
    \/ ResolveRaises(c)
    \/ EnterFails(c)
    \/ Enter(c)
    \/ BatchOk(c)
    \/ BatchFails(c)
    \/ BatchMalformed(c)
    \/ Blocks(c)
    \/ \E i \in 0..(MaxImages + 1) :
          \/ ThreadRuns(c, i)
          \/ CollectOk(c, i)
          \/ CollectFails(c, i)
          \/ CollectMalformed(c, i)
    \/ RetryOk(c)
    \/ RetryFails(c)
    \/ RetryMalformed(c)
    \/ Return(c)

\* the steps of the program, without those of the outside producer
ProgramNext ==
    \/ Begin
    \/ Sleep
    \/ ListdirFails
    \/ OpenPool
    \/ \E c \in Commands : CommandNext(c)
    \/ Join
    \/ ExportResults
    \/ ExecuteRecipe
    \/ Finish

Next == ProgramNext \/ CopyFile

Spec == Init /\ [][Next]_vars

\* the interpreter keeps running the program: its steps are weakly fair; the
\* outside producer is under no obligation
FairSpec == InitSelectOnly /\ [][Next]_vars /\ WF_vars(ProgramNext)

\* several commands: the operating system keeps scheduling the main process,
\* here up to the end of pool.map, and every worker process of the pool
FairPoolSpec ==
    /\ InitPool
    /\ [][Next]_vars
    /\ WF_vars(Begin \/ Sleep \/ OpenPool \/ Join)
    /\ \A c \in Commands : WF_vars(CommandNext(c))

\* ------------------------------------------ evaluation of the pure functions
\* the pieces the output lines are made of
LinePieces == {"Image", ": ", "a", " Result: ", "*"}

\* every line of at most MaxLineLen pieces
PureLines == UNION {[1..n -> LinePieces] : n \in 1..MaxLineLen}

\* the records (image, model, result) the fold is evaluated on
PureRecords ==
    {<<i, c, v>> : i \in {<<"img1">>, <<"img2">>}, c \in Commands,
                   v \in {<<"0.9">>, <<"0.7">>, <<"0.3">>}}

PureRecordLists == UNION {[1..n -> PureRecords] : n \in 0..MaxRecords}

\* the result tables the grouping is evaluated on
PureTables ==
    SUBSET {<<StemOf(n), c, <<ValueOf(n)>>>> : n \in 1..4, c \in Commands}

\* the frames export_connecteddb is evaluated on: one value at most for an
\* image and a model
PureFrames ==
    {t \in SUBSET {<<i, c, v>> : i \in {<<"img1">>, <<"img2">>}, c \in Commands,
                                 v \in {<<"0.9">>, <<"0.7">>}} :
        /\ \A x, y \in t : (x[1] = y[1] /\ x[2] = y[2]) => x = y
        /\ \A x \in t : x[1] = <<"img2">> => x[2] = CommandOrder[1]}

\* the tables the database can hold before the exports: no row, or a row of
\* an earlier run
PureDbs ==
    {EmptyDb,
     [columns |-> {"image", CommandOrder[1]},
      rows |-> <<DbRow(<<"img1">>, {<<CommandOrder[1], <<"0.3">>>>})>>]}

\* the upload folders the preloading is evaluated on
PureFolders == SUBSET ((1..MaxSmallImages) \cup OtherEntries)

\* the values of customEntry: beginnings of file names, one of them the
\* beginning of another, and one that no file name starts with
PureValues == {<<"A">>, <<"A", "_">>, <<"B">>, <<"Z">>}

PureValueLists == UNION {[1..n -> PureValues] : n \in 1..MaxValues}

\* the two commands the white-background condition names, and another one
PureCommands == {"root_color", "root_advanced_color", CommandOrder[1]}

\* batches of image paths handed to a binary
PureBatches == {<<1>>, <<1, 2>>}

PureInputs ==
    {[op |-> "parse", in |-> <<line>>, out |-> << >>, applied |-> FALSE] :
        line \in PureLines}
    \cup {[op |-> "fold", in |-> rs, out |-> << >>, applied |-> FALSE] :
             rs \in PureRecordLists}
    \cup {[op |-> "group", in |-> <<t, p>>, out |-> << >>, applied |-> FALSE] :
             t \in PureTables, p \in 0..MaxPosition}
    \cup {[op |-> "upsert", in |-> frames,
           out |-> [columns |-> db.columns, rows |-> db.rows, calls |-> << >>],
           applied |-> FALSE] :
             frames \in UNION {[1..n -> PureFrames] : n \in 1..MaxExports},
             db \in PureDbs}
    \cup {[op |-> "construct", in |-> <<folder, option, values>>,
           out |-> << >>, applied |-> FALSE] :
             folder \in PureFolders, option \in {"selectOnly", "excludeOnly"},
             values \in PureValueLists}
    \cup {[op |-> "exclude", in |-> <<folder, values>>,
           out |-> << >>, applied |-> FALSE] :
             folder \in PureFolders, values \in PureValueLists}
    \cup {[op |-> "binary", in |-> <<command, wb, batch>>,
           out |-> << >>, applied |-> FALSE] :
             command \in PureCommands, wb \in BOOLEAN, batch \in PureBatches}

\* no program is running; one pure function is about to be evaluated
PureInit ==
    /\ images = << >>
    /\ files = {}
    /\ pending = {}
    /\ commands = [c \in Commands |-> FALSE]
    /\ batch_size = 1
    /\ force_max = FALSE
    /\ cpu = 1
    /\ pc = "pure"
    /\ copied = {}
    /\ wait_time = 0
    /\ sleeps = 0
    /\ last_sleep = 0
    /\ sleep_parity = 0
    /\ num_processes = 0
    /\ cmd = [c \in Commands |-> IdleCommand]
    /\ failures = 0
    /\ sequential_results = << >>
    /\ results_dict = {}
    /\ tables = {}
    /\ written = {}
    /\ attempted = {}
    /\ export_calls = 0
    /\ recipe_calls = << >>
    /\ db_outcome = "none"
    /\ fallback = "none"
    /\ InitExport(NoFactor, << >>, {})
    /\ InitOutside("disabled", EmptyDb, {})
    /\ pure \in PureInputs

PureFrame ==
    UNCHANGED <<images, files, pending, commands, batch_size, force_max, cpu, pc,
                copied, wait_time, sleeps, last_sleep, sleep_parity,
                num_processes, cmd, failures, sequential_results, results_dict,
                export_config, exported, binaries, fallback>>

\* _process_results(result_lines, command)
ApplyProcessResults ==
    /\ pure.op = "parse" /\ ~pure.applied
    /\ pure' = [pure EXCEPT !.applied = TRUE,
                            !.out = ProcessResults(pure.in, CommandOrder[1])]
    /\ PureFrame

\* the fold of export_results
ApplyFold ==
    /\ pure.op = "fold" /\ ~pure.applied
    /\ pure' = [pure EXCEPT !.applied = TRUE,
                            !.out = Fold(pure.in, Len(pure.in))]
    /\ PureFrame

\* _group_results_by_position(results_dict, position)
ApplyGroupResultsByPosition ==
    /\ pure.op = "group" /\ ~pure.applied
    /\ pure' = [pure EXCEPT !.applied = TRUE,
                            !.out = GroupResultsByPosition(pure.in[1], pure.in[2])]
    /\ PureFrame

\* export_connecteddb(results_pd), once per frame; calls keeps how each call
\* ended
ApplyExportConnectedDb ==
    /\ pure.op = "upsert" /\ Len(pure.out.calls) < Len(pure.in)
    /\ LET frame == pure.in[Len(pure.out.calls) + 1] IN
       \E run \in DbRuns("ok", pure.out.columns, frame) :
          LET sink == ExportConnectedDb(pure.out.columns, pure.out.rows, frame,
                                        run.fail, run.added) IN
          pure' = [pure EXCEPT !.applied = TRUE,
                               !.out = [columns |-> sink.columns,
                                        rows |-> sink.rows,
                                        calls |-> Append(@.calls, run.fail)]]
    /\ PureFrame

\* Factory.__init__ over an upload folder, with a preloading option
ApplyFactoryImages ==
    /\ pure.op = "construct" /\ ~pure.applied
    /\ pure' = [pure EXCEPT !.applied = TRUE,
                            !.out = FactoryImages(pure.in[1], pure.in[2],
                                                  pure.in[3])]
    /\ PureFrame

\* exclude_only(values) on a Factory that holds no image yet
ApplyExcludeOnly ==
    /\ pure.op = "exclude" /\ ~pure.applied
    /\ pure' = [pure EXCEPT !.applied = TRUE,
                            !.out = ExcludeOnly({}, pure.in[1], pure.in[2])]
    /\ PureFrame

\* _get_binary_path(command), then _run_subprocess(binary_path, batch)
ApplyGetBinaryPath ==
    /\ pure.op = "binary" /\ ~pure.applied
    /\ LET binary_path == GetBinaryPath(pure.in[1], pure.in[2]) IN
       pure' = [pure EXCEPT !.applied = TRUE,
                            !.out = [path |-> binary_path,
                                     argv |-> FullCommand(binary_path,
                                                          pure.in[3])]]
    /\ PureFrame

PureNext ==
    \/ ApplyFactoryImages
    \/ ApplyGetBinaryPath
    \/ ApplyExcludeOnly
    \/ ApplyProcessResults
    \/ ApplyFold
    \/ ApplyGroupResultsByPosition
    \/ ApplyExportConnectedDb

PureSpec == PureInit /\ [][PureNext]_vars

\* ------------------------------------------------------------------ claims
Enabled == {c \in Commands : commands[c]}

\* the number of invocations of command c that were passed image img
Passed(c, img) ==
    Cardinality({k \in 1..Len(cmd[c].invoked) : img \in SeqRange(cmd[c].invoked[k].imgs)})

\* the number of retry sub-batches of the batch starting at i that were passed img
PassedRetry(c, i, img) ==
    Cardinality({k \in 1..Len(cmd[c].invoked) :
                    /\ cmd[c].invoked[k].kind = "retry"
                    /\ cmd[c].invoked[k].idx = i
                    /\ img \in SeqRange(cmd[c].invoked[k].imgs)})

HasErrorEntry(rs) == \E k \in 1..Len(rs) : ~IsRecord(rs[k])

NoEmptyInvocation(c) ==
    \A k \in 1..Len(cmd[c].invoked) : Len(cmd[c].invoked[k].imgs) >= 1

RunEnded == pc \in {"done", "failed", "raised"}

\* C1: a call of _execute_command that returns normally with no failed
\* invocation has invoked the binary exactly ceil(N/B) times and has passed
\* every image to exactly one invocation, in both modes.
C1_BatchCount ==
    \A c \in Commands :
        (cmd[c].cpc = "done" /\ cmd[c].ret = "normal" /\ cmd[c].failed = {}) =>
            /\ Len(cmd[c].invoked) = CeilDiv(Len(images), batch_size)
            /\ \A img \in SeqRange(images) : Passed(c, img) = 1

C1_Witness ==
    \E c \in Commands :
        /\ cmd[c].cpc = "done" /\ cmd[c].ret = "normal" /\ cmd[c].failed = {}
        /\ force_max
        /\ Len(images) = 5 /\ batch_size = 2
        /\ Len(cmd[c].invoked) = 3

\* C2: once the retry loop of a failed batch has run to its end (B >= 2), its
\* sub-batches hold exactly the images of the failed batch, each exactly once,
\* and no image of another batch.
C2_RetryCoversBatch ==
    \A c \in Commands : \A i \in cmd[c].retried :
        batch_size >= 2 =>
            \A img \in SeqRange(images) :
                PassedRetry(c, i, img) =
                    (IF img \in SeqRange(Batch(images, i, batch_size)) THEN 1 ELSE 0)

\* C3: when a retry sub-batch has failed, the returned list holds an error
\* entry and every batch of the command has been handled, in both modes.
C3_SubBatchFailureRecorded ==
    \A c \in Commands :
        (cmd[c].cpc = "done" /\ cmd[c].retry_failed) =>
            /\ HasErrorEntry(cmd[c].results)
            /\ cmd[c].handled = BatchStarts(Len(images), batch_size)

\* C4: when a run in which something failed has ended, every record that a
\* command gathered has been exported (is a cell of the table written).
C4_PartialResultsExported ==
    (RunEnded /\ failures > 0) =>
        \A c \in Enabled : \A k \in 1..Len(cmd[c].results) :
            IsRecord(cmd[c].results[k]) => cmd[c].results[k] \in results_dict

\* C5: after the pool, a command that ended by a fatal error (an exception
\* anywhere inside _execute_command) has an error record in the result
\* stream, and every record of every other enabled command is in the stream.
C5_FatalCommandIsolated ==
    pc \in {"export", "done", "failed", "raised"} =>
        \A c \in Enabled :
            cmd[c].ret \in {"unbound", "outer_except"} =>
                /\ HasErrorEntry(cmd[c].results)
                /\ SeqRange(cmd[c].results) \subseteq SeqRange(sequential_results)
                /\ \A d \in Enabled \ {c} :
                      SeqRange(cmd[d].results) \subseteq SeqRange(sequential_results)

\* C6: no invocation, batch or retry sub-batch, is made with an empty list of
\* image paths.
C6_NoEmptyInvocation == \A c \in Commands : NoEmptyInvocation(c)

\* C7: when batch_size // 2 is 0 and a batch has failed, no empty invocation
\* was made and the command's returned list reports the error.
C7_ZeroHalfReported ==
    \A c \in Commands :
        (cmd[c].cpc = "done" /\ Half(batch_size) = 0 /\ cmd[c].failed # {}) =>
            /\ NoEmptyInvocation(c)
            /\ HasErrorEntry(cmd[c].results)

\* C8: the pre-dispatch wait always ends: whenever the program is in the wait
\* loop it eventually leaves it (to dispatch, or by failing).
C8_WaitEnds == (pc = "wait") ~> (pc # "wait")

\* C9: while the worker pool is open every image of the ImageSet is a file of
\* the upload folder.
C9_AllImagesPresentAtDispatch ==
    pc = "pool" => SeqRange(images) \subseteq files

\* C10: the k-th sleep of the wait lasts min(2^(k-1), 16) seconds (the count
\* k saturates at MaxSleeps >= 5, from where the interval stays 16), and no
\* sleep lasts more than 16 seconds.
C10_BackoffSequence ==
    /\ sleeps >= 1 => last_sleep = Min(2 ^ (sleeps - 1), BackoffCap)
    /\ last_sleep <= BackoffCap

C10_Witness ==
    /\ pc = "wait"
    /\ sleeps = MaxSleeps
    /\ last_sleep = BackoffCap
    /\ Cardinality(copied) < Len(images)

\* the number of occurrences of a piece in a line
RECURSIVE Occurrences(_, _)
Occurrences(line, x) ==
    IF line = << >> THEN 0
    ELSE (IF Head(line) = x THEN 1 ELSE 0) + Occurrences(Tail(line), x)

Parsed == pure.op = "parse" /\ pure.applied

\* C11: a line that does not hold the separator " Result: " exactly once
\* (no occurrence, or two or more) yields no record.
C11_OtherLinesYieldNoRecord ==
    (Parsed /\ Occurrences(pure.in[1], " Result: ") # 1) =>
        pure.out.records = << >>

C11_Witness ==
    /\ Parsed
    /\ Occurrences(pure.in[1], " Result: ") = 2
    /\ Occurrences(pure.in[1], ": ") = 1
    /\ pure.out.records = << >>

\* C12: a malformed output line is never an error: a batch whose process
\* succeeded with a malformed line in its output is not treated as failed, no
\* retry sub-batch is invoked for it, and a retry sub-batch with such an
\* output leaves no error behind.
C12_MalformedLineSkipped ==
    \A c \in Commands :
        /\ ~cmd[c].retry_malformed
        /\ \A i \in cmd[c].malformed :
              /\ i \notin cmd[c].failed
              /\ \A k \in 1..Len(cmd[c].invoked) :
                    ~(cmd[c].invoked[k].kind = "retry" /\ cmd[c].invoked[k].idx = i)

\* C13: every record folded into the ResultTable has an image_name that is a
\* key of the ImageSet, and no other record reaches the table or an export.
C13_TableImagesAreImageSetKeys ==
    pc = "done" =>
        /\ \A t \in results_dict : t[1] \in ImageKeys
        /\ \A f \in written : \A t \in f.rows : t[1] \in ImageKeys

\* C14: the fold never silently replaces a value: every record of the stream
\* is still in the ResultTable when the export has ended without an error.
C14_NoSilentReplacement ==
    pc = "done" =>
        \A k \in 1..Len(sequential_results) :
            sequential_results[k] \in results_dict

\* the records of a run in which the batches complete in the order of submission
InOrderRecords(c) == ProcessResults(RunSubprocess(images, FALSE), c).records

\* C16: the ResultTable does not depend on the order in which the batches
\* complete: a run of one command without any failure yields the table of
\* the run whose batches complete in the order of submission.
C16_TableIndependentOfCompletionOrder ==
    (pc = "done" /\ force_max /\ failures = 0
     /\ TrueCommands = <<CommandOrder[1]>>) =>
        results_dict = Fold(InOrderRecords(CommandOrder[1]),
                            Len(InOrderRecords(CommandOrder[1])))

Folded == pure.op = "fold" /\ pure.applied

\* the (image, command) pairs of a record list are pairwise distinct
DistinctPairs(rs) ==
    \A k, m \in 1..Len(rs) :
        (rs[k][1] = rs[m][1] /\ rs[k][2] = rs[m][2]) => k = m

\* C15: for a list of records with pairwise distinct (image, command) pairs
\* the table holds value at (image, command) for every record of the list,
\* and holds no cell, image or command that no record of the list carries.
C15_FoldOfDistinctPairs ==
    (Folded /\ DistinctPairs(pure.in)) =>
        /\ \A k \in 1..Len(pure.in) : pure.in[k] \in pure.out
        /\ \A t \in pure.out : \E k \in 1..Len(pure.in) : pure.in[k] = t

C15_Witness ==
    /\ Folded
    /\ pure.in = << <<<<"img1">>, "m1", <<"0.9">>>>,
                    <<<<"img1">>, "m2", <<"0.7">>>>,
                    <<<<"img2">>, "m1", <<"0.3">>>> >>
    /\ pure.out = { <<<<"img1">>, "m1", <<"0.9">>>>,
                    <<<<"img1">>, "m2", <<"0.7">>>>,
                    <<<<"img2">>, "m1", <<"0.3">>>> }

\* the 0-based indices at which the separating factor occurs among the tokens
\* of the naming convention
FactorIndices ==
    IF export_separation = NoFactor \/ naming_convention = << >> THEN {}
    ELSE {p \in 0..(Len(Tokens(naming_convention)) - 1) :
             Tokens(naming_convention)[p + 1] = export_separation}

\* the image and its data are in the table of the group keyed by its p-th token
GroupedUnder(image, p) ==
    \E t \in tables :
        /\ t.name = Tokens(image)[p + 1]
        /\ {c \in results_dict : c[1] = image} \subseteq t.rows

\* load_export_separation returns p + 1 and the exporter groups by position p
ResolvedAs(p) ==
    /\ LoadExportSeparation(export_separation, naming_convention).value = p + 1
    /\ \A image \in ImagesOf(results_dict) :
          HasPosition(image, p) => GroupedUnder(image, p)

\* C17 as stated: when the separating factor is the token at index p of the
\* naming convention, p + 1 is returned and every image with more than p
\* tokens is grouped under its p-th token.
C17_AnyIndexResolved ==
    pc = "done" => \A p \in FactorIndices : ResolvedAs(p)

\* C17: when the separating factor is not the sentinel "Nenhum" and p is the
\* first index at which it occurs among the tokens of the naming convention,
\* p + 1 is returned and every image with more than p tokens is grouped under
\* its p-th token; for p = 0 as well.
C17_FirstIndexResolved ==
    (pc = "done" /\ export_separation # Nenhum) =>
        \A p \in FactorIndices :
            (\A q \in FactorIndices : p <= q) => ResolvedAs(p)

C17_Witness ==
    /\ pc = "done"
    /\ export_separation = <<"genotype">>
    /\ naming_convention = <<"species", "_", "genotype", "_", "rep">>
    /\ \E t \in tables :
          /\ t.name = <<"G7">>
          /\ <<"A", "_", "G7", "_", "1">> \in ImagesOf(t.rows)

\* the separating factor is set, is not the sentinel and is not a token of
\* the naming convention
InvalidFactor ==
    /\ export_separation \notin {NoFactor, Nenhum}
    /\ \/ naming_convention = << >>
       \/ export_separation \notin SeqRange(Tokens(naming_convention))

\* C18: with a separating factor that is set, is not the sentinel and is not
\* a token of the naming convention, export_results raises and writes no CSV
\* file, no JSON file and no database row.
C18_InvalidFactorRaises ==
    InvalidFactor =>
        /\ pc # "done"
        /\ tables = {} /\ written = {} /\ db_rows = << >>

C18_Witness ==
    /\ InvalidFactor
    /\ pc = "raised"
    /\ sequential_results # << >>
    /\ \A k \in 1..Len(sequential_results) : IsRecord(sequential_results[k])
    /\ exportation_formats = Formats

\* the exporter has been called: nothing raised before it in export_results
ExporterCalled ==
    /\ pc \in {"done", "raised"}
    /\ ~LoadExportSeparation(export_separation, naming_convention).raised
    /\ \A k \in 1..Len(sequential_results) : IsRecord(sequential_results[k])
    /\ "connected_database" \notin exportation_formats

NoGrouping == export_separation \in {NoFactor, Nenhum}

\* the exporter has built exactly one table, named "results", with every
\* image of the ResultTable
OneResultsTable ==
    /\ pc = "done"
    /\ tables = {[name |-> <<"results">>,
                  rows |-> Fold(sequential_results, Len(sequential_results))]}

Grouped == pure.op = "group" /\ pure.applied

\* the keys of the groups that hold the image
GroupsOf(groups, image) ==
    {key \in DOMAIN groups : image \in ImagesOf(groups[key])}

\* C20: _group_results_by_position partitions the images: an image with more
\* than p tokens is in exactly one group, the one keyed by its p-th token,
\* with its data unchanged; an image with p or fewer tokens is in no group;
\* no group is empty.
C20_GroupingPartitions ==
    Grouped =>
        LET table == pure.in[1]
            p == pure.in[2]
            groups == pure.out IN
        /\ \A image \in ImagesOf(table) :
              IF Len(Tokens(image)) > p
              THEN /\ GroupsOf(groups, image) = {Tokens(image)[p + 1]}
                   /\ {t \in groups[Tokens(image)[p + 1]] : t[1] = image}
                        = {t \in table : t[1] = image}
              ELSE GroupsOf(groups, image) = {}
        /\ \A key \in DOMAIN groups :
              /\ groups[key] # {}
              /\ groups[key] \subseteq table

C20_Witness ==
    /\ Grouped
    /\ pure.in[2] = 1
    /\ Cardinality(ImagesOf(pure.in[1])) = 4
    /\ DOMAIN pure.out = {<<"G7">>, <<"G8">>}
    /\ Cardinality(ImagesOf(pure.out[<<"G7">>])) = 2


\* the rows of the database table that hold an image
RowsOf(rows, image) == {k \in 1..Len(rows) : rows[k].image = image}

\* the calls of export_connecteddb that committed a row for the image
CommittedFor(image) ==
    {k \in 1..Len(pure.out.calls) :
        pure.out.calls[k] = "none" /\ image \in ImagesOf(pure.in[k])}

\* the row of the image holds, in every column of the frame, the value the
\* frame has for it, and nothing where the frame has none
HoldsValuesOf(row, frame) ==
    {x \in row.cells : x[1] \in FrameColumns(frame)} = FrameRow(frame, row.image)

\* C21: after any sequence of export_connecteddb calls on a table that had at
\* most one row per image, the table has at most one row per image, and the
\* row of every exported image holds the values of the latest export of it
C21_OneRowPerImageLatestValues ==
    pure.op = "upsert" =>
        \A image \in {<<"img1">>, <<"img2">>} :
            /\ Cardinality(RowsOf(pure.out.rows, image)) <= 1
            /\ CommittedFor(image) # {} =>
                  \E k \in CommittedFor(image) :
                      /\ \A m \in CommittedFor(image) : m <= k
                      /\ \E r \in RowsOf(pure.out.rows, image) :
                            HoldsValuesOf(pure.out.rows[r], pure.in[k])

\* an image exported twice with different values, the second export committed
C21_Witness ==
    /\ pure.op = "upsert"
    /\ Len(pure.out.calls) = 2
    /\ pure.out.calls[2] = "none"
    /\ \E x \in pure.in[1], y \in pure.in[2] :
          x[1] = y[1] /\ x[2] = y[2] /\ x[3] # y[3]

UsesDb == "connected_database" \in exportation_formats

\* the ways load_database and export_connecteddb fail
DbFailed == {"load_raised", "no_connection", "columns", "rows"}

\* C22: export_connecteddb is all-or-nothing: when a column addition or a row
\* operation fails, the table afterwards has the same rows and the same
\* columns as before the call (here: in the export of a run without any
\* other failure)
C22_AllOrNothing ==
    [][(pc = "export" /\ failures = 0 /\ db_outcome' \in {"columns", "rows"})
          => (db_columns' = db_columns /\ db_rows' = db_rows)]_vars

\* C23: when connected_database is enabled and load_database or
\* export_connecteddb fails, the CSV and JSON exports enabled for the same run
\* are still attempted (here: by the end of a run without any other failure
\* and with results to export)
C23_FilesAttemptedAfterDbFailure ==
    (pc = "exit" /\ UsesDb /\ db_outcome \in DbFailed /\ failures = 0
     /\ results_dict # {} /\ exportation_formats \cap FileFormats # {})
        => attempted # {}

\* C24: for every table built (one per group) and every enabled file format,
\* in any order of the formats, the writer of the format was called for the
\* table, whatever writes failed; what was written holds the table's rows
C24_FormatsAndGroupsIsolated ==
    /\ \A t \in tables : \A f \in exportation_formats \cap FileFormats :
          FileOf(t.name, f) \in attempted
    /\ pc = "done" =>
          \A t \in tables : \A w \in written :
              (\E f \in FileFormats : w.file = FileOf(t.name, f)) => w.rows = t.rows

\* two groups and both file formats: the writing of one file failed, the
\* other file of the group and the files of the other group are there
C24_Witness ==
    /\ pc = "done"
    /\ Cardinality(tables) = 2
    /\ FileFormats \subseteq exportation_formats
    /\ \E t \in tables, f, g \in FileFormats :
          /\ FileOf(t.name, f) \in attempted
          /\ \A w \in written : w.file # FileOf(t.name, f)
          /\ \E w \in written : w.file = FileOf(t.name, g)
          /\ \A u \in tables \ {t} : \A h \in FileFormats :
                \E w \in written : w.file = FileOf(u.name, h) /\ w.rows = u.rows

\* C25: a configuration failure of the relational sink (no database file, no
\* table, connected_database enabled with ENABLE_DB false) is raised before
\* the first binary invocation of any command
C25_SinkFailureBeforeDispatch ==
    (UsesDb /\ db_config # "ok" /\ db_outcome = "none" /\ failures = 0)
        => \A c \in Commands : cmd[c].invoked = << >>

\* _execute_command is not inside the with block of change_directory
Outside(c) == cmd[c].cpc \in {"idle", "resolve", "done", "raised"}

\* C26: every process invocation of a command runs while the working
\* directory is the binary's directory; a step of a batch thread leaves the
\* working directory as it is; and when _execute_command has ended, by return
\* or after a failure, the working directory is the one on entry
C26_WorkingDirectoryDiscipline ==
    /\ [](\A c \in Commands :
            /\ cmd[c].cwds \subseteq {"binary"}
            /\ Outside(c) => cmd[c].cwd = "caller")
    /\ [][\A c \in Commands :
            (cmd'[c].futures # cmd[c].futures /\ cmd'[c].cpc = cmd[c].cpc)
                => cmd'[c].cwd = cmd[c].cwd]_vars

\* a command in FORCE_MAXPERFORMANCE mode has ended after a failed retry,
\* with batches still running when the failure was raised
C26_Witness ==
    \E c \in Commands :
        /\ force_max
        /\ cmd[c].cpc = "done" /\ cmd[c].ret = "outer_except"
        /\ \E f \in cmd[c].futures : f[2] = "unread"
        /\ cmd[c].cwds = {"binary"}
        /\ cmd[c].cwd = "caller"

\* C27: in FORCE_MAXPERFORMANCE mode a step that completes a future leaves the
\* results of the command alone, and the results are extended only by the
\* collecting thread, with the records of a future that was already done
C27_ResultsWrittenByCollectorOnly ==
    [][\A c \in Commands :
          force_max =>
              /\ cmd'[c].results # cmd[c].results
                    => cmd'[c].futures = cmd[c].futures
              /\ \A i \in cmd'[c].handled \ cmd[c].handled :
                    i \in Completed(cmd[c])]_vars

\* the results hold the records of one batch while the future of another
\* batch is done and waits to be collected
C27_Witness ==
    \E c \in Commands :
        /\ force_max
        /\ cmd[c].results # << >>
        /\ Uncollected(cmd[c]) # {}

\* the pipeline of command c has ended
Completes(c) == cmd[c].cpc \in {"done", "raised"}

\* C28: for every number of enabled commands and every cpu_count, if the
\* binary of one command never exits, the pipeline of every other enabled
\* command still starts and completes
C28_OthersCompleteForEveryPool ==
    \A c, d \in Commands :
        (cmd[c].cpc = "blocked" /\ d # c /\ commands[d]) ~> Completes(d)

\* C28, amended: the same when cpu_count is at least the number of enabled
\* commands, so that every command has a worker of its own
C28_OthersCompleteWithOwnWorker ==
    \A c, d \in Commands :
        (cmd[c].cpc = "blocked" /\ d # c /\ commands[d]
         /\ cpu >= Len(TrueCommands)) ~> Completes(d)

\* one command is blocked in its binary and another one, enabled, has
\* completed beside it
C28_Witness ==
    \E c, d \in Commands :
        /\ cmd[c].cpc = "blocked"
        /\ d # c /\ commands[d] /\ Completes(d)
        /\ cpu >= Len(TrueCommands)

\* execute_recipes_parallel met an error: a worker raised, or the wait for
\* the images failed, so that the pool of a recipe with enabled commands was
\* never asked for
ParallelError ==
    \/ \E c \in Commands : cmd[c].cpc = "raised"
    \/ pc \notin {"start", "wait"} /\ num_processes = 0 /\ TrueCommands # << >>

\* C29: whenever an error occurs during parallel execution, the run falls
\* back to sequential execution: it does not end before execute_recipe ran
C29_FallbackAfterParallelError ==
    (pc = "exit" /\ ParallelError) => fallback = "ran"

\* the wait for the images has ended and multiprocessing.Pool was asked for
PoolAsked ==
    pc \notin {"start", "wait", "pure"} /\ ~(Cardinality(copied) < Len(images))

\* C30: the pipeline of a disabled command is never executed, that of every
\* enabled command has been executed when pool.map has returned, at most
\* min(cpu_count, number of enabled commands) pipelines are in flight, and the
\* pool size is at least 1 once the pool is asked for, also for a recipe with
\* no enabled command
C30_PoolDispatch ==
    /\ \A c \in Commands : ~commands[c] => cmd[c].cpc = "idle"
    /\ pc \in {"export", "done"} =>
          \A c \in Commands : commands[c] => cmd[c].cpc = "done"
    /\ Cardinality(InFlight) <= Min(cpu, Len(TrueCommands))
    /\ PoolAsked => num_processes >= 1

\* the calls of _run_subprocess of command c of the given kind for the batch
\* starting at i
CallsOf(c, kind, i) ==
    {k \in 1..Len(cmd[c].invoked) :
        cmd[c].invoked[k].kind = kind /\ cmd[c].invoked[k].idx = i}

\* C31: for every batch_size >= 2: no retry invocation is made with the image
\* list of the failed batch itself; every batch is invoked at most once and a
\* failed batch has at most ceil(B / floor(B/2)) retry invocations, a batch
\* that did not fail none; so a command makes at most ceil(N/B) first-level
\* invocations plus ceil(B / floor(B/2)) retry invocations per failed batch
C31_HalvingOnce ==
    \A c \in Commands :
        batch_size >= 2 =>
            /\ \A k \in 1..Len(cmd[c].invoked) :
                  cmd[c].invoked[k].kind = "retry" =>
                      cmd[c].invoked[k].imgs #
                          Batch(images, cmd[c].invoked[k].idx, batch_size)
            /\ \A i \in BatchStarts(Len(images), batch_size) :
                  /\ Cardinality(CallsOf(c, "batch", i)) <= 1
                  /\ Cardinality(CallsOf(c, "retry", i)) <=
                        (IF i \in cmd[c].failed
                         THEN CeilDiv(batch_size, Half(batch_size)) ELSE 0)
            /\ Len(cmd[c].invoked) <=
                  CeilDiv(Len(images), batch_size)
                  + Cardinality(cmd[c].failed)
                    * CeilDiv(batch_size, Half(batch_size))

\* the positions in the calls of command c that come before position k and
\* are retry invocations for the batch starting at i
RetriesBefore(c, i, k) == {m \in CallsOf(c, "retry", i) : m < k}

\* C32: in sequential mode no batch runs in a thread and a call that never
\* returns is the last one made; the batches are invoked in the order of the
\* ImageSet; the retry invocations of a failed batch come after it, in
\* ascending order of j, and all of them before the next batch is invoked
C32_SequentialOrder ==
    \A c \in Commands :
        ~force_max =>
            LET inv == cmd[c].invoked IN
            /\ cmd[c].futures = {}
            /\ cmd[c].cpc = "blocked" => inv # << >> /\ Last(inv).kind = "batch"
            /\ \A k \in 1..Len(inv) :
                  /\ inv[k].kind = "batch" =>
                        /\ inv[k].imgs = Batch(images, inv[k].idx, batch_size)
                        /\ \A m \in 1..(k - 1) :
                              /\ inv[m].idx <= inv[k].idx
                              /\ inv[m].kind = "batch" => inv[m].idx < inv[k].idx
                        /\ \A i \in cmd[c].failed :
                              i < inv[k].idx =>
                                  Cardinality(RetriesBefore(c, i, k)) =
                                      CeilDiv(batch_size, Half(batch_size))
                  /\ inv[k].kind = "retry" =>
                        /\ \E m \in 1..(k - 1) :
                              inv[m].kind = "batch" /\ inv[m].idx = inv[k].idx
                        /\ inv[k].imgs =
                              RetryBatch(images,
                                         inv[k].idx
                                         + Cardinality(RetriesBefore(c, inv[k].idx, k))
                                           * Half(batch_size),
                                         batch_size)

\* a sequential run in which a batch failed, its retry loop ran to its end
\* and the batch after it was invoked
C32_Witness ==
    \E c \in Commands :
        /\ ~force_max /\ batch_size >= 2
        /\ \E i \in cmd[c].retried :
              \E k \in 1..Len(cmd[c].invoked) :
                  /\ cmd[c].invoked[k].kind = "batch"
                  /\ cmd[c].invoked[k].idx > i

\* the records of the retry loop of the batch starting at i, from j on, when
\* every sub-batch succeeds
RECURSIVE RetryRecords(_, _, _)
RetryRecords(c, i, j) ==
    IF j >= i + batch_size THEN << >>
    ELSE RunAndProcess(RetryBatch(images, j, batch_size), FALSE, c).records
         \o RetryRecords(c, i, j + Half(batch_size))

\* what the sequential branch of _execute_command returns from batch i on,
\* when the batches starting in F fail and every retry sub-batch succeeds
RECURSIVE SequentialReturn(_, _, _)
SequentialReturn(c, i, F) ==
    IF i >= Len(images) THEN << >>
    ELSE IF i \notin F
    THEN RunAndProcess(Batch(images, i, batch_size), FALSE, c).records
         \o SequentialReturn(c, i + batch_size, F)
    ELSE IF Half(batch_size) = 0 THEN << >>
    ELSE RetryRecords(c, i, i) \o SequentialReturn(c, i + batch_size, F)

\* the number of times r occurs in rs
CountIn(rs, r) == Cardinality({k \in 1..Len(rs) : rs[k] = r})

SameMultiset(a, b) ==
    \A r \in SeqRange(a) \cup SeqRange(b) : CountIn(a, r) = CountIn(b, r)

\* the sets of failing batches that agree with the outcomes command c has met:
\* sequential mode has met the batches it invoked, FORCE_MAXPERFORMANCE mode
\* the futures whose outcome was set before the executor was left
OutcomesMet(c) ==
    LET starts == BatchStarts(Len(images), batch_size)
        bad == IF force_max
               THEN {f[1] : f \in {g \in cmd[c].futures :
                                      g[2] \in {"failed", "malformed"}}}
               ELSE cmd[c].failed
        good == IF force_max
                THEN {f[1] : f \in {g \in cmd[c].futures : g[2] = "ok"}}
                ELSE cmd[c].handled \ cmd[c].failed IN
    {bad \cup X : X \in SUBSET (starts \ (bad \cup good))}

\* _execute_command has returned and nothing but first-level batches failed
OnlyBatchesFailed(c) ==
    /\ cmd[c].cpc = "done"
    /\ ~cmd[c].retry_failed /\ ~cmd[c].retry_malformed
    /\ cmd[c].ret = "normal" \/ (cmd[c].ret = "outer_except" /\ cmd[c].failed # {})

\* C33: when only first-level batches failed, the list _execute_command
\* returns holds, in both modes and whatever the order in which the batches
\* complete, the records the sequential branch returns for the same ImageSet,
\* batch_size and outcomes of the invocations, each as many times
C33_ModeEquivalence ==
    \A c \in Commands :
        OnlyBatchesFailed(c) =>
            \A F \in OutcomesMet(c) :
                SameMultiset(cmd[c].results, SequentialReturn(c, 0, F))

\* the images of a folder that start with one of the values
Selected(folder, values) ==
    {i \in ImagesIn(folder) :
        \E k \in 1..Len(values) : StartsWith(FileName(i), values[k])}

\* C34: after the construction with selectOnly the ImageSet holds exactly the
\* images that start with one of the values, every image of the ImageSet is
\* a file of the upload folder (so the count the wait expects is the number
\* of image files present), and a selection of no image is rejected
C34_SelectOnlyImageSet ==
    (pure.op = "construct" /\ pure.applied /\ pure.in[2] = "selectOnly") =>
        LET chosen == Selected(pure.in[1], pure.in[3]) IN
        /\ chosen = {} => pure.out.raised
        /\ ~pure.out.raised =>
              /\ pure.out.images = chosen
              /\ pure.out.images \subseteq pure.out.files
              /\ Cardinality(pure.out.images)
                    = Cardinality(ImagesIn(pure.out.files))

\* C35: exclude_only does not raise, whatever the values; every image that
\* starts with one of the values is removed from the folder, by one call of
\* os.remove, and every other entry stays
C35_ExcludeOnlyRemovesOnce ==
    (pure.op = "exclude" /\ pure.applied /\ ImagesIn(pure.in[1]) # {}) =>
        LET gone == Selected(pure.in[1], pure.in[2]) IN
        /\ ~pure.out.raised
        /\ pure.out.files = pure.in[1] \ gone
        /\ SeqRange(pure.out.removals) = gone
        /\ Len(pure.out.removals) = Cardinality(gone)

\* the call of check_output that execute_recipe makes for the n-th enabled
\* command: its binary over the whole ImageSet, whatever the batch size
WholeSetCall(n) ==
    /\ recipe_calls[n].command = TrueCommands[n]
    /\ recipe_calls[n].imgs = images

\* the parallel export has ended without an error: no call of execute_recipe,
\* no pipeline at work
NothingAfterExport ==
    (pc \in {"done", "exit"} /\ fallback = "none") =>
        /\ recipe_calls = << >>
        /\ InFlight = {}

\* C36: when export_results raised at the end of execute_recipes_parallel the
\* run does not end before execute_recipe ran; execute_recipe invokes the
\* binary of every enabled command, once each, over the whole ImageSet, and
\* export_results is called a second time; after a parallel export without
\* an error no binary is invoked
C36_FallbackInvokesEveryCommand ==
    /\ pc = "exit" => fallback # "due"
    /\ fallback = "ran" =>
          /\ Len(recipe_calls) = Len(TrueCommands)
          /\ \A n \in 1..Len(recipe_calls) : WholeSetCall(n)
    /\ (pc = "exit" /\ fallback = "ran") => export_calls = 2
    /\ NothingAfterExport

\* C36, amended: the same, execute_recipe invoking the binaries of the
\* enabled commands in recipe order up to the first invocation that fails
C36_FallbackInvokesUntilFailure ==
    /\ pc = "exit" => fallback # "due"
    /\ fallback = "ran" =>
          /\ Len(recipe_calls) <= Len(TrueCommands)
          /\ \A n \in 1..Len(recipe_calls) :
                /\ WholeSetCall(n)
                /\ n < Len(recipe_calls) => recipe_calls[n].ok
          /\ Len(recipe_calls) < Len(TrueCommands) => ~Last(recipe_calls).ok
    /\ (pc = "exit" /\ fallback = "ran") => export_calls = 2
    /\ NothingAfterExport

\* the parallel export raised, execute_recipe invoked the first of two
\* enabled commands, the invocation failed, and the second export was made
C36_Witness ==
    /\ pc = "exit" /\ fallback = "ran" /\ export_calls = 2
    /\ Len(TrueCommands) = 2
    /\ Len(recipe_calls) = 1 /\ ~recipe_calls[1].ok

\* the number of calls of execute_recipe that succeeded
CallsOk == Cardinality({n \in 1..Len(recipe_calls) : recipe_calls[n].ok})

\* C37: execute_recipe calls export_results once on every path, with the
\* records of the commands that completed before any failure; no command is
\* invoked after a failed invocation; the working directory is the start
\* directory after each command
C37_RecipeExportsCompletedCommands ==
    /\ pc = "fallback_export" =>
          /\ export_calls = 1
          /\ sequential_results = RecipeResults(TrueCommands, CallsOk)
    /\ (pc = "exit" /\ fallback = "ran") => export_calls = 2
    /\ \A n \in 1..Len(recipe_calls) :
          /\ recipe_calls[n].cwd_after = "caller"
          /\ n < Len(recipe_calls) => recipe_calls[n].ok
\* C38: the white-background modifier is applied only to root_color and
\* root_advanced_color and only when white_background is enabled, and it is
\* passed as an argument: for every other command, and whenever the flag is
\* disabled, the resolved path is <models_path>/<command>.exe, and in every
\* invocation argv[0] is the path of the executable itself
C38_WhiteBackgroundModifier ==
    pure.op = "binary" /\ pure.applied =>
        LET command == pure.in[1]
            executable == <<"models", command, ".exe">>
        IN  /\ (command \notin {"root_color", "root_advanced_color"}
                    \/ ~pure.in[2]) => pure.out.path = executable
            /\ pure.out.argv[1] = executable

\* the call of export_connecteddb this step makes, when it returns normally
CommittedCall ==
    /\ pure.op = "upsert"
    /\ Len(pure'.out.calls) = Len(pure.out.calls) + 1
    /\ pure'.out.calls[Len(pure'.out.calls)] = "none"

\* the call before this one returned normally and had the same result columns
RepeatsColumns ==
    /\ Len(pure.out.calls) >= 1
    /\ pure.out.calls[Len(pure.out.calls)] = "none"
    /\ FrameColumns(pure.in[Len(pure.out.calls)])
          = FrameColumns(pure.in[Len(pure.out.calls) + 1])

\* C39: column addition in export_connecteddb is monotone and idempotent:
\* after a successful call the table's columns are the columns it had before
\* plus every result column that was missing, no existing column is removed
\* or added twice, and a second export with the same result columns adds no
\* column
C39_ColumnAdditionMonotoneIdempotent ==
    [][CommittedCall =>
          LET frame == pure.in[Len(pure.out.calls) + 1]
              before == pure.out.columns
              after == pure'.out.columns
          IN  /\ after = before \cup (FrameColumns(frame) \ before)
              /\ before \subseteq after
              /\ (after \ before) \cap before = {}
              /\ RepeatsColumns => after = before]_vars

\* two successful exports with the same result columns, one of which the
\* table did not have before the first
C39_Witness ==
    /\ pure.op = "upsert"
    /\ Len(pure.out.calls) = 2
    /\ pure.out.calls[1] = "none" /\ pure.out.calls[2] = "none"
    /\ FrameColumns(pure.in[1]) = FrameColumns(pure.in[2])
    /\ CommandOrder[2] \in FrameColumns(pure.in[1])
    /\ CommandOrder[2] \in pure.out.columns

====
